---- MODULE Spec2Model ----
(***************************************************************************)
(* A model of the zerogc "simple" mark-sweep collector                     *)
(* (libs/simple/src/lib.rs) and of the GcContext protocol of the zerogc    *)
(* crate (src/lib.rs): allocation, the shadow stack, safepoints, nested    *)
(* contexts, tri-colour marking, the sweep and the threshold update.       *)
(***************************************************************************)
EXTENDS Integers, Sequences, FiniteSets, TLC

(***************************************************************************)
(* Bounds of the model.                                                    *)
(***************************************************************************)
\* Number of distinct object addresses (arena slots and boxes) in a run.
MaxObjs == 2
\* Nesting depth of recurse_context calls.
MaxDepth == 1

\* Number of header addresses an allocation is tried at.
MaxHeaders == 3
\* Largest payload value of a Word.
MaxValue == 1
\* The largest number of entries of a map.
MaxEntries == 2
\* The largest number of tokens of a visit template.
MaxTokens == 3

Addrs == 1..MaxObjs
\* The null pointer / Option::None of a Gc field.
NoAddr == 0
\* The address of an object on the heap of another collector.
ForeignAddr == MaxObjs + 1

\* The RawSimpleCollector whose heap the model follows, as the
\* expected_collector of its collection task, and another collector.
expected_collector == "B"
ForeignCollector == "A"

(***************************************************************************)
(* Layout facts (64-bit target).                                           *)
(***************************************************************************)
\* size_of::<GcHeader>(): a reference plus the state byte, padded to 8.
GcHeaderSize == 16
\* size_of::<BigGcObject<()>>(): header, prev link, empty payload.
BigGcObjectBaseSize == 24
\* align_of::<GcHeader>(), the alignment of arena elements.
ARENA_ELEMENT_ALIGN == 8
\* Largest object the small arenas take, in bytes.
MAXIMUM_SMALL_SIZE == 256
\* Granularity of the size classes of the small arenas, in bytes.
SizeClassStep == 8

INITIAL_COLLECTION_THRESHOLD == 2048

\* Layout::padding_needed_for
padding_needed_for(size, align) == (align - (size % align)) % align

RoundUp(n, align) == n + padding_needed_for(n, align)

Max(a, b) == IF a >= b THEN a ELSE b

(***************************************************************************)
(* The payload types the mutator allocates.  Each is a Rust type with its  *)
(* size_of, align_of, Trace::NEEDS_TRACE, needs_drop and the number of Gc  *)
(* fields its trace visits.                                                *)
(*   Block : struct { next: GcCell<Option<Gc<Block>>>, buf: Vec<u8>,       *)
(*                    pad: [u64; 120] }                                    *)
(*   Node  : struct { next: GcCell<Option<Gc<Node>>> }                     *)
(*   Bytes : [u8; 1001]                                                    *)
(*   Odd3  : struct Odd3([u8; 3]), with an `impl Drop` that counts         *)
(*   Word  : u32                                                           *)
(*   Half  : u16                                                           *)
(*   Unit  : ()                                                            *)
(*   Wide  : #[repr(align(16))] struct Wide([u8; 16])                      *)
(*   Page  : #[repr(align(32))] struct Page([u8; 4096])                    *)
(* Types is the set of them the mutator of the model uses.                 *)
(***************************************************************************)
TypeInfo ==
  [ Block |-> [size |-> 1000, align |-> 8, NEEDS_TRACE |-> TRUE,  needs_drop |-> TRUE ],
    Node  |-> [size |-> 16,   align |-> 8, NEEDS_TRACE |-> TRUE,  needs_drop |-> FALSE],
    Bytes |-> [size |-> 1001, align |-> 1, NEEDS_TRACE |-> FALSE, needs_drop |-> FALSE],
    Odd3  |-> [size |-> 3,    align |-> 1, NEEDS_TRACE |-> FALSE, needs_drop |-> TRUE ],
    Word  |-> [size |-> 4,    align |-> 4, NEEDS_TRACE |-> FALSE, needs_drop |-> FALSE],
    Half  |-> [size |-> 2,    align |-> 2, NEEDS_TRACE |-> FALSE, needs_drop |-> FALSE],
    Unit  |-> [size |-> 0,    align |-> 1, NEEDS_TRACE |-> FALSE, needs_drop |-> FALSE],
    Wide  |-> [size |-> 16,   align |-> 16, NEEDS_TRACE |-> FALSE, needs_drop |-> FALSE],
    Page  |-> [size |-> 4096, align |-> 32, NEEDS_TRACE |-> FALSE, needs_drop |-> FALSE] ]

Types == {"Block", "Odd3"}

\* The types whose values differ in their data, and the data they hold:
\* the values of a Word.
ValueTypes == {"Word"}
Values == 0..MaxValue

\* Whether values of the type hold a Gc field (exactly the traced types).
HasField(t) == TypeInfo[t].NEEDS_TRACE

VARIABLES
  small_object_arenas,  \* cargo feature "small-object-arenas" of the build
  implicit_grey_stack,  \* cargo feature "implicit-grey-stack" of the build
  objs,                 \* address -> allocation (header, payload fields); the
                        \* allocation at ForeignAddr is another collector's
  small_arenas,         \* size class -> [slots, free]: SmallArenaList
  big_object_link,      \* SimpleAlloc.big_object_link: the chain, head first
  allocated_size,       \* SimpleAlloc.allocated_size (live_bytes)
  threshold,            \* GcHeap.threshold
  shadow_stack,         \* RawSimpleCollector.shadow_stack
  calls,                \* active basic_safepoint / recurse_context calls, with
                        \* their `value` argument and `dyn_ptr` local
  strong_count,         \* Rc strong count of the RawSimpleCollector: the number
                        \* of SimpleCollectorContexts alive
  payload,              \* address -> the data of the payload that is not a Gc
  locals,               \* what the operation on a Gc handle that the mutator
                        \* ran last took and returned; the locals of alloc
  handles,              \* per context, outermost first: the objects to which the
                        \* mutator holds a Gc whose lifetime borrows that context;
                        \* << >> where the mutator is not held to safe Rust
  trailing_root,        \* << $root >> of a safepoint_recurse! between the return
                        \* of its recurse_context and its safepoint!, else << >>
  roots,                \* CollectionTask.roots
  root_idx,             \* position of the `for &root in &self.roots` loop
  grey_stack,           \* CollectionTask.grey_stack
  dropped,              \* drop_func invocations of the running collection
  panicked,             \* the panic that ended the program, or "none"
  pc                    \* position of the (single) thread

vars == << small_object_arenas, implicit_grey_stack, objs, small_arenas,
           big_object_link, allocated_size, threshold, shadow_stack, calls,
           strong_count, payload, locals, handles, trailing_root, roots, root_idx,
           grey_stack, dropped, panicked, pc >>

heap_vars == << objs, small_arenas, big_object_link, allocated_size, threshold, dropped >>
task_vars == << roots, root_idx, grey_stack >>
build_vars == << small_object_arenas, implicit_grey_stack >>


(***************************************************************************)
(* Static type information: GcType and StaticGcType.                       *)
(***************************************************************************)
\* alloc::small_object_size::<T>(): header, padding to T's alignment, payload.
small_object_size(t) ==
  GcHeaderSize + padding_needed_for(GcHeaderSize, TypeInfo[t].align) + TypeInfo[t].size

\* alloc::is_small_object::<T>(); constantly false without the arenas feature.
is_small_object(t) ==
  /\ small_object_arenas
  /\ small_object_size(t) <= MAXIMUM_SMALL_SIZE
  /\ TypeInfo[t].align <= ARENA_ELEMENT_ALIGN

\* A defective offset that leaves out the padding to T's alignment.
VALUE_OFFSET_unpadded(t) ==
  IF is_small_object(t) THEN GcHeaderSize ELSE BigGcObjectBaseSize

\* StaticGcType::VALUE_OFFSET
VALUE_OFFSET(t) ==
  IF is_small_object(t)
    THEN GcHeaderSize + padding_needed_for(GcHeaderSize, TypeInfo[t].align)
    ELSE BigGcObjectBaseSize + padding_needed_for(BigGcObjectBaseSize, TypeInfo[t].align)

\* GcType::total_size of T::STATIC_TYPE
total_size(t) == VALUE_OFFSET(t) + TypeInfo[t].size

\* GcType.drop_func of T::STATIC_TYPE is Some iff needs_drop::<T>().
drop_func(t) == TypeInfo[t].needs_drop

\* size_of::<BigObjectLink>(): an Option<NonNull<_>>.
BigObjectLinkSize == 8

\* The offset of the field static_value in the repr(C) struct BigGcObject<T>:
\* after header and prev, at the next multiple of T's alignment.
offset_of_static_value(t) ==
  RoundUp(GcHeaderSize + BigObjectLinkSize, TypeInfo[t].align)

\* GcHeader::value, on the header at the byte address header whose
\* type_info is T::STATIC_TYPE for the type t.
GcHeader_value(header, t) == header + VALUE_OFFSET(t)

\* GcHeader::from_value_ptr::<T>, on the byte address ptr.
from_value_ptr(t, ptr) == ptr - VALUE_OFFSET(t)

\* The payload pointer of the Gc that alloc::<T> returns when the arena or
\* Box::new gave it the memory at the byte address header: the value() of
\* the header on the small path, the address of object.static_value on the
\* large one.
alloc_value_ptr(t, header) ==
  IF is_small_object(t) THEN GcHeader_value(header, t)
  ELSE header + offset_of_static_value(t)

\* The byte addresses at which memory for a T starts: arena slots at
\* multiples of the arena alignment, boxes at multiples of the alignment of
\* BigGcObject<T>.
HeaderAddrs(t) ==
  { k * Max(ARENA_ELEMENT_ALIGN, TypeInfo[t].align) : k \in 1..MaxHeaders }

\* size_of::<BigGcObject<T>>(): a repr(C) struct { header, prev, static_value },
\* its size rounded up to its alignment.
size_of_BigGcObject(t) ==
  RoundUp(RoundUp(BigGcObjectBaseSize, TypeInfo[t].align) + TypeInfo[t].size,
          Max(ARENA_ELEMENT_ALIGN, TypeInfo[t].align))

\* The size class (arena) of a small type: the smallest class that fits.
SizeClass(t) == RoundUp(small_object_size(t), SizeClassStep)

SizeClasses ==
  { SizeClass(t) : t \in { u \in Types : /\ small_object_size(u) <= MAXIMUM_SMALL_SIZE
                                         /\ TypeInfo[u].align <= ARENA_ELEMENT_ALIGN } }

(***************************************************************************)
(* Heap helpers.                                                           *)
(***************************************************************************)
Range(s) == { s[i] : i \in 1..Len(s) }

\* Gc::from_raw: a Gc handle is the pointer to its collector and the pointer
\* to the payload.
Gc_from_raw(collector_ptr, value) == [collector_ptr |-> collector_ptr, value |-> value]

\* A defective create that leaves the null pointer in the allocator.
collector_ptr_null == "null"

\* SimpleAlloc.collector_ptr, as SimpleCollector::create leaves it.
collector_ptr == expected_collector

\* The Gc that alloc returned for the allocation at a.
GcOf(a) == Gc_from_raw(collector_ptr, a)

\* The objects of this heap that the Gcs of a root value point to.
GcValues(gcs) == { gc.value : gc \in Range(gcs) } \cap Addrs

\* A Gc allocated by the other collector, and the object it points to.
ForeignGc == Gc_from_raw(ForeignCollector, ForeignAddr)
ForeignObj == [status |-> "live", ty |-> "Word", state |-> "White", child |-> NoAddr]

\* The payload data of Block and Odd3 values: their bytes are all zero.
ZeroValue == 0

\* No operation on a Gc handle has run.
NoLocals == [op |-> "none"]

\* Memory not holding an allocation: never used, or a freed box.
UnusedObj == [status |-> "unused", ty |-> "Odd3", state |-> "White", child |-> NoAddr]
\* An arena slot on its free list.
FreeSlot == [status |-> "free", ty |-> "Odd3", state |-> "White", child |-> NoAddr]

Live == { a \in Addrs : objs[a].status = "live" }

\* The address the system allocator / the arena's bump pointer hands out next.
HasFreshAddr == \E a \in Addrs : objs[a].status = "unused"
FreshAddr == CHOOSE a \in Addrs :
               /\ objs[a].status = "unused"
               /\ \A b \in Addrs : objs[b].status = "unused" => a <= b

RECURSIVE ReachFrom(_)
\* The addresses reachable from S through Gc fields.
ReachFrom(S) ==
  LET next == S \cup ({ objs[a].child : a \in S } \ {NoAddr})
  IN IF next = S THEN S ELSE ReachFrom(next)

\* The value of handles for a mutator that is not held to the borrow rules:
\* it may name every allocated object.
Untracked == << >>

\* The objects the mutator can name.  Safe Rust can name those it holds a Gc
\* to, in any context whose borrow is in force, and what their fields lead to.
Usable ==
  IF handles = Untracked THEN Live
  ELSE ReachFrom({ a \in UNION Range(handles) : objs[a].status = "live" })

(***************************************************************************)
(* The operations on a Gc handle.  A reference &'gc T is the address of    *)
(* the payload; what it refers to is the payload at that address.          *)
(***************************************************************************)
\* GcRef::value: &'gc T from the pointer of the handle.
Gc_value(gc) == gc.value

\* Deref::deref: the value field of the handle, read as a &'gc T.
Gc_deref(gc) == gc.value

\* Clone::clone: *self, the handle being Copy.
Gc_clone(gc) == gc

\* <u32 as PartialEq>::eq on two references.
T_eq(ref, other) == payload[ref] = payload[other]

\* <u32 as Hash>::hash: writes the value to the hasher, whose state is the
\* sequence of the values written.
T_hash(ref, state) == Append(state, payload[ref])

\* A defective eq that compares the handles: pointer and collector.
Gc_eq_by_identity(gc, other) == gc = other

\* PartialEq::eq for Gc: self.value() == other.value().
Gc_eq(gc, other) == T_eq(Gc_value(gc), Gc_value(other))

\* PartialEq<T>::eq for Gc: self.value() == other, other a plain T.
Gc_eq_T(gc, other) == payload[Gc_value(gc)] = other

\* Hash::hash for Gc: self.value().hash(state).
Gc_hash(gc, state) == T_hash(Gc_value(gc), state)

\* The Gc handles the mutator can hold: to the objects it can name, and one
\* of the other collector.
HeldGcs == { GcOf(a) : a \in Usable } \cup { ForeignGc }

\* The static type T of a Gc<T> handle.
TypeOf(gc) == objs[gc.value].ty

\* A defective comparison: equality does not trigger.
should_collect_strict == allocated_size > threshold

\* GcHeap::should_collect
should_collect == allocated_size >= threshold

(***************************************************************************)
(* SimpleAlloc::alloc and SimpleAlloc::alloc_big.                          *)
(***************************************************************************)
NewObj(t, child) == [status |-> "live", ty |-> t, state |-> "White", child |-> child]

\* The slot Arena::alloc returns: the head of the free list, else a bumped slot.
ArenaHasSlot(c) == small_arenas[c].free # << >> \/ HasFreshAddr
ArenaSlot(c) == IF small_arenas[c].free # << >> THEN Head(small_arenas[c].free) ELSE FreshAddr

alloc_small(t, child) ==
  LET c == SizeClass(t)
      slot == ArenaSlot(c)
  IN /\ ArenaHasSlot(c)
     /\ small_arenas' =
          [small_arenas EXCEPT ![c] =
             IF @.free # << >> THEN [@ EXCEPT !.free = Tail(@)]
                               ELSE [@ EXCEPT !.slots = Append(@, slot)]]
     /\ objs' = [objs EXCEPT ![slot] = NewObj(t, child)]
     /\ allocated_size' = allocated_size + small_object_size(t)
     /\ UNCHANGED big_object_link

\* A defective alloc_big that builds the box with prev = None.
alloc_big_forget_prev(t, child) ==
  /\ HasFreshAddr
  /\ objs' = [objs EXCEPT ![FreshAddr] = NewObj(t, child)]
  /\ big_object_link' = << FreshAddr >>
  /\ allocated_size' = allocated_size + size_of_BigGcObject(t)
  /\ UNCHANGED small_arenas

\* SimpleAlloc::alloc_big: box the value, link the box in front of the list.
alloc_big(t, child) ==
  /\ HasFreshAddr
  /\ objs' = [objs EXCEPT ![FreshAddr] = NewObj(t, child)]
  /\ big_object_link' = << FreshAddr >> \o big_object_link
  /\ allocated_size' = allocated_size + size_of_BigGcObject(t)
  /\ UNCHANGED small_arenas

alloc(t, child) ==
  IF is_small_object(t) THEN alloc_small(t, child) ELSE alloc_big(t, child)

\* The payload address of the Gc that alloc returns.
alloc_value(t) == IF is_small_object(t) THEN ArenaSlot(SizeClass(t)) ELSE FreshAddr

\* The handles after the innermost context handed out a Gc to the object at a.
hold(hs, a) == IF hs = Untracked THEN hs ELSE [hs EXCEPT ![Len(hs)] = @ \cup {a}]

\* The handles after a safepoint on the innermost context returned: its
\* mutable borrow ended every Gc of that context, and the rebranded root is
\* what the caller holds.
rebrand(hs, gcs) == IF hs = Untracked THEN hs ELSE [hs EXCEPT ![Len(hs)] = GcValues(gcs)]

\* The handles inside the closure of recurse_context: the sub-context starts
\* with the root it was given, and the contexts around it are only
\* shared-borrowed, so that their Gcs stay in force.
enter(hs, gcs) == IF hs = Untracked THEN hs ELSE Append(hs, GcValues(gcs))

\* The handles after the closure returned and the sub-context was dropped.
leave(hs) == IF hs = Untracked THEN hs ELSE SubSeq(hs, 1, Len(hs) - 1)

(***************************************************************************)
(* Marking: MarkVisitor::visit_gc and the trace of roots and objects.      *)
(* A marking state m is [objs, grey, panic, writes, implicit]: the         *)
(* headers, the grey stack, the panic raised by an assert of the visitor,  *)
(* if any, the stores to the state byte of headers in the order they were  *)
(* made, and whether the build has the feature implicit-grey-stack.        *)
(***************************************************************************)
\* The MarkVisitor of a build, on the headers o and the grey stack g.
MarkVisitorOf(o, g, implicit) ==
  [objs |-> o, grey |-> g, panic |-> "none", writes |-> << >>, implicit |-> implicit]

\* The MarkVisitor of the build that runs.
MarkVisitor(o, g) == MarkVisitorOf(o, g, implicit_grey_stack)

\* obj.state = st, on the header of the object at a.
set_state(m, a, st) ==
  [m EXCEPT !.objs[a].state = st, !.writes = Append(@, [obj |-> a, state |-> st])]

RECURSIVE visit_gc(_, _)
\* A defective visitor without the check of the collector.
visit_gc_unchecked(m, gc) ==
  LET a == gc.value
      obj == m.objs[a] IN
  IF m.panic # "none" THEN m
  ELSE CASE obj.state = "White" ->
         IF ~TypeInfo[obj.ty].NEEDS_TRACE
           THEN set_state(m, a, "Black")
           ELSE LET g == set_state(m, a, "Grey") IN
                IF ~m.implicit
                  THEN [g EXCEPT !.grey = Append(@, a)]
                  ELSE LET t == IF obj.child = NoAddr THEN g
                                ELSE visit_gc(g, GcOf(obj.child))
                       IN set_state(t, a, "Black")
    [] obj.state = "Grey" -> m
    [] obj.state = "Black" -> m

\* A defective visitor that takes every object for one that needs tracing.
visit_gc_leaf_grey(m, gc) ==
  LET a == gc.value
      obj == m.objs[a] IN
  IF m.panic # "none" THEN m
  ELSE IF gc.collector_ptr # expected_collector
    THEN [m EXCEPT !.panic = "wrong_collector"]
  ELSE CASE obj.state = "White" ->
         LET g == set_state(m, a, "Grey") IN
         IF ~m.implicit
           THEN [g EXCEPT !.grey = Append(@, a)]
           ELSE LET t == IF obj.child = NoAddr THEN g
                         ELSE visit_gc(g, GcOf(obj.child))
                IN IF t.panic # "none" THEN t ELSE set_state(t, a, "Black")
    [] obj.state = "Grey" -> m
    [] obj.state = "Black" -> m

\* A defective visitor without the Grey and Black arms: an object that needs
\* tracing is marked Grey and queued whatever its state.
visit_gc_rescan(m, gc) ==
  LET a == gc.value
      obj == m.objs[a] IN
  IF m.panic # "none" THEN m
  ELSE IF gc.collector_ptr # expected_collector
    THEN [m EXCEPT !.panic = "wrong_collector"]
  ELSE IF ~TypeInfo[obj.ty].NEEDS_TRACE
    THEN set_state(m, a, "Black")
    ELSE [set_state(m, a, "Grey") EXCEPT !.grey = Append(@, a)]

\* A defective visitor that, with the implicit grey stack, does not mark the
\* object Black when the recursion has returned.
visit_gc_grey_left(m, gc) ==
  LET a == gc.value
      obj == m.objs[a] IN
  IF m.panic # "none" THEN m
  ELSE IF gc.collector_ptr # expected_collector
    THEN [m EXCEPT !.panic = "wrong_collector"]
  ELSE CASE obj.state = "White" ->
         IF ~TypeInfo[obj.ty].NEEDS_TRACE
           THEN set_state(m, a, "Black")
           ELSE LET g == set_state(m, a, "Grey") IN
                IF ~m.implicit
                  THEN [g EXCEPT !.grey = Append(@, a)]
                  ELSE IF obj.child = NoAddr THEN g ELSE visit_gc(g, GcOf(obj.child))
    [] obj.state = "Grey" -> m
    [] obj.state = "Black" -> m

\* GcVisit::visit_gc for MarkVisitor, on the Gc handle gc.
visit_gc(m, gc) ==
  LET a == gc.value
      obj == m.objs[a] IN
  IF m.panic # "none" THEN m
  ELSE IF gc.collector_ptr # expected_collector
    THEN [m EXCEPT !.panic = "wrong_collector"]
  ELSE CASE obj.state = "White" ->
         IF ~TypeInfo[obj.ty].NEEDS_TRACE
           THEN set_state(m, a, "Black")
           ELSE LET g == set_state(m, a, "Grey") IN
                IF ~m.implicit
                  THEN [g EXCEPT !.grey = Append(@, a)]
                  ELSE LET t == IF obj.child = NoAddr THEN g
                                ELSE visit_gc(g, GcOf(obj.child))
                       IN IF t.panic # "none" THEN t ELSE set_state(t, a, "Black")
    [] obj.state = "Grey" -> m
    [] obj.state = "Black" -> m

\* A defective trace that reports no field to the visitor.
trace_func_skip(m, a) == m

\* GcType.trace_func / <T as Trace>::visit of the payload at a: visits the Gc
\* its field holds.
trace_func(m, a) ==
  IF m.objs[a].child = NoAddr THEN m ELSE visit_gc(m, GcOf(m.objs[a].child))

RECURSIVE trace_root(_, _)
\* DynTrace::trace of a shadow-stack entry: visits the Gcs of the root in order.
trace_root(m, gcs) ==
  IF gcs = << >> THEN m ELSE trace_root(visit_gc(m, Head(gcs)), Tail(gcs))

RECURSIVE run_roots(_, _)
\* CollectionTask::run, the whole loop `for &root in &self.roots`.
run_roots(m, rs) ==
  IF rs = << >> THEN m ELSE run_roots(trace_root(m, Head(rs).gcs), Tail(rs))

(***************************************************************************)
(* SimpleAlloc::sweep.  A sweep state w carries the headers, the free list *)
(* of the arena being swept, the two byte counts, the drop_func calls and  *)
(* the panic raised, if any.                                               *)
(***************************************************************************)
\* A defective small-object arm: the destructor of a survivor is run too.
sweep_slot_drop_survivor(w, slot) ==
  LET obj == w.objs[slot] IN
  IF w.panic # "none" \/ obj.status # "live" THEN w
  ELSE CASE obj.state = "White" ->
              [w EXCEPT !.expected_size = @ - total_size(obj.ty),
                        !.dropped = IF drop_func(obj.ty) THEN Append(@, slot) ELSE @,
                        !.objs[slot] = FreeSlot,
                        !.last_free = << slot >> \o @]
         [] obj.state = "Grey" -> [w EXCEPT !.panic = "grey_at_sweep"]
         [] obj.state = "Black" ->
              [w EXCEPT !.actual_size = @ + total_size(obj.ty),
                        !.dropped = IF drop_func(obj.ty) THEN Append(@, slot) ELSE @,
                        !.objs[slot].state = "White"]

\* A defective small-object arm that does not skip the slots that are free.
sweep_slot_no_skip(w, slot) ==
  LET obj == w.objs[slot] IN
  IF w.panic # "none" THEN w
  ELSE CASE obj.state = "White" ->
              [w EXCEPT !.expected_size = IF obj.status = "live" THEN @ - total_size(obj.ty) ELSE @,
                        !.dropped = IF drop_func(obj.ty) THEN Append(@, slot) ELSE @,
                        !.objs[slot] = FreeSlot,
                        !.last_free = << slot >> \o @]
         [] obj.state = "Grey" -> [w EXCEPT !.panic = "grey_at_sweep"]
         [] obj.state = "Black" ->
              [w EXCEPT !.actual_size = @ + total_size(obj.ty),
                        !.objs[slot].state = "White"]

\* One iteration of arena.for_each in the sweep of a small arena.
sweep_slot(w, slot) ==
  LET obj == w.objs[slot] IN
  IF w.panic # "none" \/ obj.status # "live" THEN w
  ELSE CASE obj.state = "White" ->
              [w EXCEPT !.expected_size = @ - total_size(obj.ty),
                        !.dropped = IF drop_func(obj.ty) THEN Append(@, slot) ELSE @,
                        !.objs[slot] = FreeSlot,
                        !.last_free = << slot >> \o @]
         [] obj.state = "Grey" -> [w EXCEPT !.panic = "grey_at_sweep"]
         [] obj.state = "Black" ->
              [w EXCEPT !.actual_size = @ + total_size(obj.ty),
                        !.objs[slot].state = "White"]

RECURSIVE sweep_slots(_, _)
sweep_slots(w, slots) ==
  IF slots = << >> THEN w ELSE sweep_slots(sweep_slot(w, Head(slots)), Tail(slots))

\* The sweep of one arena: last_free starts at arena.free and is stored back.
sweep_arena(w, c) ==
  IF w.panic # "none" THEN w
  ELSE LET r == sweep_slots([w EXCEPT !.last_free = w.arenas[c].free], w.arenas[c].slots)
       IN IF r.panic # "none" THEN r
          ELSE [r EXCEPT !.arenas[c].free = r.last_free]

RECURSIVE sweep_arenas(_, _)
sweep_arenas(w, cs) ==
  IF cs = {} THEN w
  ELSE LET c == CHOOSE x \in cs : \A y \in cs : x <= y
       IN sweep_arenas(sweep_arena(w, c), cs \ {c})

\* A defective large-object arm: a White box is retained and counted as a survivor.
sweep_big_obj_keep_white(w, a) ==
  LET obj == w.objs[a] IN
  IF obj.state = "Grey" THEN [w EXCEPT !.panic = "grey_at_sweep"]
  ELSE [w EXCEPT !.actual_size = @ + total_size(obj.ty),
                 !.big = << a >> \o @,
                 !.objs[a].state = "White"]

\* A defective large-object arm: a retained box keeps its Black mark.
sweep_big_obj_no_reset(w, a) ==
  LET obj == w.objs[a] IN
  CASE obj.state = "White" ->
         [w EXCEPT !.expected_size = @ - total_size(obj.ty),
                   !.dropped = IF drop_func(obj.ty) THEN Append(@, a) ELSE @,
                   !.objs[a] = UnusedObj]
    [] obj.state = "Grey" -> [w EXCEPT !.panic = "grey_at_sweep"]
    [] obj.state = "Black" ->
         [w EXCEPT !.actual_size = @ + total_size(obj.ty),
                   !.big = << a >> \o @]

\* A defective large-object arm: the payload of a retained box is cleared.
sweep_big_obj_clobber(w, a) ==
  LET obj == w.objs[a] IN
  CASE obj.state = "White" ->
         [w EXCEPT !.expected_size = @ - total_size(obj.ty),
                   !.dropped = IF drop_func(obj.ty) THEN Append(@, a) ELSE @,
                   !.objs[a] = UnusedObj]
    [] obj.state = "Grey" -> [w EXCEPT !.panic = "grey_at_sweep"]
    [] obj.state = "Black" ->
         [w EXCEPT !.actual_size = @ + total_size(obj.ty),
                   !.big = << a >> \o @,
                   !.objs[a].state = "White",
                   !.objs[a].child = NoAddr]

\* A defective large-object arm: a White box is freed without running its
\* destructor.
sweep_big_obj_no_drop(w, a) ==
  LET obj == w.objs[a] IN
  CASE obj.state = "White" ->
         [w EXCEPT !.expected_size = @ - total_size(obj.ty),
                   !.objs[a] = UnusedObj]
    [] obj.state = "Grey" -> [w EXCEPT !.panic = "grey_at_sweep"]
    [] obj.state = "Black" ->
         [w EXCEPT !.actual_size = @ + total_size(obj.ty),
                   !.big = << a >> \o @,
                   !.objs[a].state = "White"]

\* One iteration of the `while let Some(big_link)` loop, on the box at a:
\* w.big is last_linked, the chain of retained boxes, most recently linked first.
sweep_big_obj(w, a) ==
  LET obj == w.objs[a] IN
  CASE obj.state = "White" ->
         [w EXCEPT !.expected_size = @ - total_size(obj.ty),
                   !.dropped = IF drop_func(obj.ty) THEN Append(@, a) ELSE @,
                   !.objs[a] = UnusedObj]
    [] obj.state = "Grey" -> [w EXCEPT !.panic = "grey_at_sweep"]
    [] obj.state = "Black" ->
         [w EXCEPT !.actual_size = @ + total_size(obj.ty),
                   !.big = << a >> \o @,
                   !.objs[a].state = "White"]

RECURSIVE sweep_big(_, _)
\* The loop over the chain; rest is the part of the chain still to visit
\* (big_object_link during the loop).
sweep_big(w, rest) ==
  IF w.panic # "none" \/ rest = << >> THEN [w EXCEPT !.rest = rest]
  ELSE sweep_big(sweep_big_obj(w, Head(rest)), Tail(rest))

\* The whole of SimpleAlloc::sweep, on the heap whose headers are o.
sweep_from(o) ==
  LET w0 == [objs |-> o, arenas |-> small_arenas, last_free |-> << >>,
             big |-> << >>, rest |-> << >>,
             expected_size |-> allocated_size, actual_size |-> 0,
             dropped |-> << >>, panic |-> "none"]
      w1 == IF small_object_arenas THEN sweep_arenas(w0, SizeClasses) ELSE w0
      w2 == sweep_big(w1, big_object_link)
  IN IF w2.panic = "none" /\ w2.expected_size # w2.actual_size
       THEN [w2 EXCEPT !.panic = "size_mismatch"]
       ELSE w2

\* ... on the current heap.
sweep == sweep_from(objs)

(***************************************************************************)
(* The shadow stack.  An entry is the erased pointer to the root value     *)
(* (ptr) and the Gcs that value holds (gcs).                               *)
(***************************************************************************)
\* The root values the mutator passes: () or a Gc it holds.
RootValues == {<< >>} \cup { << GcOf(a) >> : a \in Usable }
\* ... and, to a safepoint, also a Gc of the other collector.
SafepointValues == RootValues \cup { << ForeignGc >> }

\* The address of the caller's `value`: one stack location per nesting level.
ValuePtr == Len(calls) + 1

\* ShadowStack::push
push(stack, ptr, gcs) == Append(stack, [ptr |-> ptr, gcs |-> gcs])

\* A defective pop that leaves the entry on the stack.
pop_keep(stack) == stack

\* ShadowStack::pop: the stack without its last entry.
pop(stack) == IF stack = << >> THEN stack ELSE SubSeq(stack, 1, Len(stack) - 1)
\* ... and the pointer it returns (None on an empty stack).
popped(stack) == IF stack = << >> THEN NoAddr ELSE stack[Len(stack)].ptr

(***************************************************************************)
(* Initial state: SimpleCollector::create followed by into_context.  The   *)
(* build is either with or without the small-object arenas; Spec is the    *)
(* build with the explicit grey stack (implicit-grey-stack is off).        *)
(***************************************************************************)
InitCollector ==
  /\ small_object_arenas \in BOOLEAN
  /\ objs = [a \in Addrs \cup {ForeignAddr} |->
               IF a = ForeignAddr THEN ForeignObj ELSE UnusedObj]
  /\ small_arenas = [c \in SizeClasses |-> [slots |-> << >>, free |-> << >>]]
  /\ big_object_link = << >>
  /\ allocated_size = 0
  /\ threshold = INITIAL_COLLECTION_THRESHOLD
  /\ shadow_stack = << >>
  /\ calls = << >>
  /\ strong_count = 1
  /\ payload = [a \in Addrs \cup {ForeignAddr} |-> ZeroValue]
  /\ trailing_root = << >>
  /\ roots = << >>
  /\ root_idx = 1
  /\ grey_stack = << >>
  /\ dropped = << >>
  /\ panicked = "none"
  /\ pc = "mutator"

\* The mutator may name every allocated object.
Init ==
  /\ InitCollector
  /\ implicit_grey_stack = FALSE
  /\ handles = Untracked
  /\ locals = NoLocals

\* The build with the feature implicit-grey-stack.
InitImplicit ==
  /\ InitCollector
  /\ implicit_grey_stack = TRUE
  /\ handles = Untracked
  /\ locals = NoLocals

\* The mutator is safe Rust: it names only what the borrow rules let it hold.
InitSafe ==
  /\ InitCollector
  /\ implicit_grey_stack = FALSE
  /\ handles = << {} >>
  /\ locals = NoLocals

\* A call of alloc::<T> that has just got its memory, for any T and any
\* address of the memory.
InitLayout ==
  /\ InitCollector
  /\ implicit_grey_stack = FALSE
  /\ handles = Untracked
  /\ locals \in { [op |-> "memory", T |-> t, header |-> h] :
                     t \in DOMAIN TypeInfo, h \in UNION { HeaderAddrs(u) : u \in DOMAIN TypeInfo } }
  /\ locals.header \in HeaderAddrs(locals.T)

(***************************************************************************)
(* Mutator steps.                                                          *)
(***************************************************************************)
\* A defective alloc that calls maybe_collect after allocating.
Alloc_collecting(t, child) ==
  /\ pc = "mutator"
  /\ IF HasField(t) THEN child \in Usable \cup {NoAddr} ELSE child = NoAddr
  /\ alloc(t, child)
  /\ handles' = hold(handles, alloc_value(t))
  /\ IF allocated_size' >= threshold
       THEN /\ roots' = shadow_stack
            /\ root_idx' = 1
            /\ grey_stack' = << >>
            /\ pc' = IF shadow_stack = << >> THEN "sweep" ELSE "mark_roots"
       ELSE UNCHANGED << task_vars, pc >>
  /\ payload' = [payload EXCEPT ![alloc_value(t)] = ZeroValue]
  /\ UNCHANGED << build_vars, strong_count, locals, trailing_root, threshold, shadow_stack, calls, dropped, panicked >>

\* GcSimpleAlloc::alloc on a context: allocate a value of type t whose Gc
\* field (if the type has one) is child.
Alloc(t, child) ==
  /\ pc = "mutator"
  /\ IF HasField(t) THEN child \in Usable \cup {NoAddr} ELSE child = NoAddr
  /\ alloc(t, child)
  /\ handles' = hold(handles, alloc_value(t))
  /\ payload' = [payload EXCEPT ![alloc_value(t)] = ZeroValue]
  /\ UNCHANGED << build_vars, strong_count, locals, trailing_root, threshold, shadow_stack, calls, task_vars, dropped,
                  panicked, pc >>

\* GcCell::set on the Gc field of an object the mutator can name.
SetChild(a, child) ==
  /\ pc = "mutator"
  /\ a \in Usable
  /\ HasField(objs[a].ty)
  /\ child \in Usable \cup {NoAddr}
  /\ child # objs[a].child
  /\ objs' = [objs EXCEPT ![a].child = child]
  /\ UNCHANGED << build_vars, strong_count, payload, locals, handles, trailing_root, small_arenas, big_object_link, allocated_size, threshold,
                  shadow_stack, calls, task_vars, dropped, panicked, pc >>

\* basic_safepoint, up to the call of maybe_collect: push the root.
basic_safepoint_push(gcs) ==
  /\ shadow_stack' = push(shadow_stack, ValuePtr, gcs)
  /\ calls' = Append(calls, [op |-> "basic_safepoint", value |-> gcs, dyn_ptr |-> ValuePtr])
  /\ pc' = "maybe_collect"

\* safepoint!(ctx, value) written by the mutator, up to the call of
\* maybe_collect.
SafepointPush(gcs) ==
  /\ pc = "mutator"
  /\ gcs \in SafepointValues
  /\ basic_safepoint_push(gcs)
  /\ UNCHANGED << build_vars, strong_count, payload, locals, handles, trailing_root, heap_vars, task_vars, panicked >>

\* safepoint!($context, $root) at the end of safepoint_recurse!, up to the
\* call of maybe_collect.
TrailingSafepointPush ==
  /\ pc = "trailing_safepoint"
  /\ basic_safepoint_push(trailing_root[1])
  /\ trailing_root' = << >>
  /\ UNCHANGED << build_vars, strong_count, payload, locals, handles, heap_vars, task_vars, panicked >>

\* A defective maybe_collect that collects whatever should_collect says.
MaybeCollect_always ==
  /\ pc = "maybe_collect"
  /\ roots' = shadow_stack
  /\ root_idx' = 1
  /\ grey_stack' = << >>
  /\ pc' = "mark_roots"
  /\ UNCHANGED << build_vars, strong_count, payload, locals, handles, trailing_root, heap_vars, shadow_stack, calls, panicked >>

\* A defective perform_collection that also takes a Gc it finds outside the
\* shadow stack (the oldest allocation of the heap) as a root.
MaybeCollect_extra_root ==
  /\ pc = "maybe_collect"
  /\ IF should_collect
       THEN /\ roots' = IF Live = {} THEN shadow_stack
                        ELSE Append(shadow_stack,
                                    [ptr |-> NoAddr,
                                     gcs |-> << GcOf(CHOOSE a \in Live : \A b \in Live : a <= b) >>])
            /\ root_idx' = 1
            /\ grey_stack' = << >>
            /\ pc' = "mark_roots"
       ELSE /\ pc' = "pop_uncollected"
            /\ UNCHANGED task_vars
  /\ UNCHANGED << build_vars, strong_count, payload, locals, handles, trailing_root, heap_vars, shadow_stack, calls, panicked >>

\* A defective perform_collection that takes only the newest root.
MaybeCollect_top_root_only ==
  /\ pc = "maybe_collect"
  /\ IF should_collect
       THEN /\ roots' = << shadow_stack[Len(shadow_stack)] >>
            /\ root_idx' = 1
            /\ grey_stack' = << >>
            /\ pc' = "mark_roots"
       ELSE /\ pc' = "pop_uncollected"
            /\ UNCHANGED task_vars
  /\ UNCHANGED << build_vars, strong_count, payload, locals, handles, trailing_root, heap_vars, shadow_stack, calls, panicked >>

\* RawSimpleCollector::maybe_collect and the set-up of perform_collection.
MaybeCollect ==
  /\ pc = "maybe_collect"
  /\ IF should_collect
       THEN /\ roots' = shadow_stack
            /\ root_idx' = 1
            /\ grey_stack' = << >>
            /\ pc' = "mark_roots"
       ELSE /\ pc' = "pop_uncollected"
            /\ UNCHANGED task_vars
  /\ UNCHANGED << build_vars, strong_count, payload, locals, handles, trailing_root, heap_vars, shadow_stack, calls, panicked >>

\* A defective root loop that goes on to the sweep without draining the grey
\* stack.
MarkRoot_skip_drain ==
  /\ pc = "mark_roots"
  /\ root_idx <= Len(roots)
  /\ LET m == trace_root(MarkVisitor(objs, grey_stack),
                         roots[root_idx].gcs)
     IN /\ objs' = m.objs
        /\ grey_stack' = m.grey
        /\ panicked' = m.panic
        /\ root_idx' = IF m.panic = "none" THEN root_idx + 1 ELSE root_idx
        /\ pc' = IF m.panic # "none" THEN "panicked"
                 ELSE IF root_idx < Len(roots) THEN "mark_roots"
                 ELSE "sweep"
  /\ UNCHANGED << build_vars, strong_count, payload, locals, handles, trailing_root, small_arenas, big_object_link, allocated_size, threshold,
                  shadow_stack, calls, roots, dropped >>

\* CollectionTask::run, one iteration of `for &root in &self.roots`.
MarkRoot ==
  /\ pc = "mark_roots"
  /\ root_idx <= Len(roots)
  /\ LET m == trace_root(MarkVisitor(objs, grey_stack),
                         roots[root_idx].gcs)
     IN /\ objs' = m.objs
        /\ grey_stack' = m.grey
        /\ panicked' = m.panic
        /\ root_idx' = IF m.panic = "none" THEN root_idx + 1 ELSE root_idx
        /\ pc' = IF m.panic # "none" THEN "panicked"
                 ELSE IF root_idx < Len(roots) THEN "mark_roots"
                 ELSE IF implicit_grey_stack THEN "sweep" ELSE "drain"
  /\ UNCHANGED << build_vars, strong_count, payload, locals, handles, trailing_root, small_arenas, big_object_link, allocated_size, threshold,
                  shadow_stack, calls, roots, dropped >>

\* CollectionTask::run, one iteration of `while let Some(obj) = grey_stack.pop()`.
DrainGrey ==
  /\ pc = "drain"
  /\ grey_stack # << >>
  /\ LET obj == grey_stack[Len(grey_stack)]
         m == trace_func(MarkVisitor(objs, SubSeq(grey_stack, 1, Len(grey_stack) - 1)), obj)
     IN /\ objs' = IF m.panic = "none" THEN [m.objs EXCEPT ![obj].state = "Black"]
                   ELSE m.objs
        /\ grey_stack' = m.grey
        /\ panicked' = m.panic
        /\ pc' = IF m.panic = "none" THEN "drain" ELSE "panicked"
  /\ UNCHANGED << build_vars, strong_count, payload, locals, handles, trailing_root, small_arenas, big_object_link, allocated_size, threshold,
                  shadow_stack, calls, roots, root_idx, dropped >>

\* The grey stack is empty: the drain loop ends.
DrainDone ==
  /\ pc = "drain"
  /\ grey_stack = << >>
  /\ pc' = "sweep"
  /\ UNCHANGED << build_vars, strong_count, payload, locals, handles, trailing_root, heap_vars, shadow_stack, calls, task_vars, panicked >>

\* SimpleAlloc::sweep, called from CollectionTask::run.
Sweep ==
  /\ pc = "sweep"
  /\ LET w == sweep IN
       /\ objs' = w.objs
       /\ small_arenas' = w.arenas
       /\ dropped' = w.dropped
       /\ panicked' = w.panic
       /\ big_object_link' = IF w.panic = "grey_at_sweep" THEN w.rest ELSE w.big
       /\ allocated_size' = IF w.panic = "none" THEN w.actual_size ELSE allocated_size
       /\ pc' = IF w.panic = "none" THEN "update_threshold" ELSE "panicked"
  /\ UNCHANGED << build_vars, strong_count, payload, locals, handles, trailing_root, threshold, shadow_stack, calls, task_vars >>

\* A defective update: twice the surviving size.
UpdateThreshold_double ==
  /\ pc = "update_threshold"
  /\ threshold' = 2 * allocated_size
  /\ roots' = << >>
  /\ root_idx' = 1
  /\ grey_stack' = << >>
  /\ pc' = "pop_collected"
  /\ UNCHANGED << build_vars, strong_count, payload, locals, handles, trailing_root, objs, small_arenas, big_object_link, allocated_size,
                  shadow_stack, calls, dropped, panicked >>

\* A different update: 150% of the surviving size, but at least the initial threshold.
UpdateThreshold_clamped ==
  /\ pc = "update_threshold"
  /\ threshold' = Max(INITIAL_COLLECTION_THRESHOLD, allocated_size + (allocated_size \div 2))
  /\ roots' = << >>
  /\ root_idx' = 1
  /\ grey_stack' = << >>
  /\ pc' = "pop_collected"
  /\ UNCHANGED << build_vars, strong_count, payload, locals, handles, trailing_root, objs, small_arenas, big_object_link, allocated_size,
                  shadow_stack, calls, dropped, panicked >>

\* CollectionTask::run, the threshold update; perform_collection returns.
UpdateThreshold ==
  /\ pc = "update_threshold"
  /\ threshold' = allocated_size + (allocated_size \div 2)
  /\ roots' = << >>
  /\ root_idx' = 1
  /\ grey_stack' = << >>
  /\ pc' = "pop_collected"
  /\ UNCHANGED << build_vars, strong_count, payload, locals, handles, trailing_root, objs, small_arenas, big_object_link, allocated_size,
                  shadow_stack, calls, dropped, panicked >>

\* The pop and its assert_eq!, shared by basic_safepoint and recurse_context;
\* return_pc is where the caller goes on.
PopRoot(op, return_pc) ==
  /\ calls # << >>
  /\ calls[Len(calls)].op = op
  /\ shadow_stack' = pop(shadow_stack)
  /\ calls' = SubSeq(calls, 1, Len(calls) - 1)
  /\ IF popped(shadow_stack) = calls[Len(calls)].dyn_ptr
       THEN /\ panicked' = "none"
            /\ pc' = return_pc
       ELSE /\ panicked' = "root_mismatch"
            /\ pc' = "panicked"

\* basic_safepoint, after maybe_collect returned: pop the root and return.
SafepointPop ==
  /\ pc \in {"pop_uncollected", "pop_collected"}
  /\ PopRoot("basic_safepoint", "mutator")
  /\ handles' = rebrand(handles, calls[Len(calls)].value)
  /\ dropped' = << >>
  /\ UNCHANGED << build_vars, strong_count, payload, locals, trailing_root, objs, small_arenas, big_object_link, allocated_size,
                  threshold, task_vars >>

\* safepoint_recurse!(ctx, root, closure), up to the call of the closure:
\* recurse_context pushes the root and creates the sub-context.
RecurseEnter(gcs) ==
  /\ pc = "mutator"
  /\ Len(calls) < MaxDepth
  /\ gcs \in RootValues
  /\ shadow_stack' = push(shadow_stack, ValuePtr, gcs)
  /\ calls' = Append(calls, [op |-> "recurse_context", value |-> gcs, dyn_ptr |-> ValuePtr])
  /\ handles' = enter(handles, gcs)
  /\ strong_count' = strong_count + 1
  /\ UNCHANGED << build_vars, payload, locals, trailing_root, heap_vars, task_vars, panicked, pc >>

\* A defective safepoint_recurse! that returns without its safepoint!.
RecurseExit_no_safepoint ==
  /\ pc = "mutator"
  /\ PopRoot("recurse_context", "mutator")
  /\ handles' = leave(handles)
  /\ strong_count' = strong_count - 1
  /\ UNCHANGED << build_vars, payload, locals, trailing_root, heap_vars, task_vars >>

\* A defective recurse_context that runs maybe_collect after the closure
\* returned, before its pop.
RecurseExit_collecting ==
  /\ pc = "mutator"
  /\ calls # << >>
  /\ calls[Len(calls)].op = "recurse_context"
  /\ IF should_collect
       THEN /\ roots' = shadow_stack
            /\ root_idx' = 1
            /\ grey_stack' = << >>
            /\ pc' = "mark_roots"
            /\ UNCHANGED << shadow_stack, calls, strong_count, handles, trailing_root, panicked >>
       ELSE /\ PopRoot("recurse_context", "trailing_safepoint")
            /\ strong_count' = strong_count - 1
            /\ handles' = leave(handles)
            /\ trailing_root' = << calls[Len(calls)].value >>
            /\ UNCHANGED task_vars
  /\ UNCHANGED << build_vars, payload, locals, heap_vars >>

\* safepoint_recurse!, after the closure returned: recurse_context drops the
\* sub-context, pops the root and returns; the safepoint! on $root is next.
RecurseExit ==
  /\ pc = "mutator"
  /\ PopRoot("recurse_context", "trailing_safepoint")
  /\ handles' = leave(handles)
  /\ trailing_root' = << calls[Len(calls)].value >>
  /\ strong_count' = strong_count - 1
  /\ UNCHANGED << build_vars, payload, locals, heap_vars, task_vars >>

\* A defective @managed_result arm whose safepoint! takes the root alone.
RecurseExitManaged_root_only(result) ==
  /\ pc = "mutator"
  /\ result \in Usable
  /\ PopRoot("recurse_context", "trailing_safepoint")
  /\ handles' = hold(leave(handles), result)
  /\ trailing_root' = << calls[Len(calls)].value >>
  /\ strong_count' = strong_count - 1
  /\ UNCHANGED << build_vars, payload, locals, heap_vars, task_vars >>

\* safepoint_recurse!(ctx, root, @managed_result, closure), after the closure
\* returned the Gc result: rebrand_static, the return of recurse_context and
\* rebrand_self; the safepoint! on (root, result) is next.
RecurseExitManaged(result) ==
  /\ pc = "mutator"
  /\ result \in Usable
  /\ PopRoot("recurse_context", "trailing_safepoint")
  /\ handles' = hold(leave(handles), result)
  /\ trailing_root' = << calls[Len(calls)].value \o << GcOf(result) >> >>
  /\ strong_count' = strong_count - 1
  /\ UNCHANGED << build_vars, payload, locals, heap_vars, task_vars >>

Next ==
  \/ \E t \in Types, child \in Addrs \cup {NoAddr} : Alloc(t, child)
  \/ \E a \in Addrs, child \in Addrs \cup {NoAddr} : SetChild(a, child)
  \/ \E gcs \in SafepointValues : SafepointPush(gcs)
  \/ TrailingSafepointPush
  \/ MaybeCollect
  \/ MarkRoot
  \/ DrainGrey
  \/ DrainDone
  \/ Sweep
  \/ UpdateThreshold
  \/ SafepointPop
  \/ \E gcs \in RootValues : RecurseEnter(gcs)
  \/ RecurseExit

Spec == Init /\ [][Next]_vars

\* alloc of a value of a type in ValueTypes, with the data v.
AllocValue(t, v) ==
  /\ pc = "mutator"
  /\ t \in ValueTypes
  /\ v \in Values
  /\ alloc(t, NoAddr)
  /\ payload' = [payload EXCEPT ![alloc_value(t)] = v]
  /\ handles' = hold(handles, alloc_value(t))
  /\ UNCHANGED << build_vars, strong_count, locals, trailing_root, threshold, shadow_stack,
                  calls, task_vars, dropped, panicked, pc >>

\* The frame of an operation on Gc handles: it returns the locals l.
GcOp(l) ==
  /\ pc = "mutator"
  /\ locals' = l
  /\ UNCHANGED << build_vars, strong_count, payload, handles, trailing_root, heap_vars,
                  shadow_stack, calls, task_vars, panicked, pc >>

\* A defective deref that runs maybe_collect first.
Deref_collecting(gc) ==
  /\ pc = "mutator"
  /\ gc \in HeldGcs
  /\ locals' = [op |-> "deref", gc |-> gc, ref |-> Gc_deref(gc)]
  /\ IF should_collect
       THEN /\ roots' = shadow_stack
            /\ root_idx' = 1
            /\ grey_stack' = << >>
            /\ pc' = IF shadow_stack = << >> THEN "sweep" ELSE "mark_roots"
       ELSE UNCHANGED << task_vars, pc >>
  /\ UNCHANGED << build_vars, strong_count, payload, handles, trailing_root, heap_vars,
                  shadow_stack, calls, panicked >>

\* *gc (and gc.value()): the reference to the payload.
Deref(gc) ==
  /\ gc \in HeldGcs
  /\ GcOp([op |-> "deref", gc |-> gc, ref |-> Gc_deref(gc)])

\* gc.clone() (and the implicit copy).
Clone(gc) ==
  /\ gc \in HeldGcs
  /\ GcOp([op |-> "clone", gc |-> gc, copy |-> Gc_clone(gc)])

\* gc == other, on two Gc<T>, T: PartialEq.
Eq(gc, other) ==
  /\ gc \in HeldGcs /\ other \in HeldGcs
  /\ TypeOf(gc) \in ValueTypes
  /\ TypeOf(other) = TypeOf(gc)
  /\ GcOp([op |-> "eq", lhs |-> gc, rhs |-> other, result |-> Gc_eq(gc, other)])

\* gc == v, on a Gc<T> and a plain T.
EqValue(gc, v) ==
  /\ gc \in HeldGcs
  /\ TypeOf(gc) \in ValueTypes
  /\ v \in Values
  /\ GcOp([op |-> "eq_value", lhs |-> gc, rhs_value |-> v, result |-> Gc_eq_T(gc, v)])

\* The hashes of two Gc<T>, T: Hash, each with a new hasher of one kind.
Hash(gc, other) ==
  /\ gc \in HeldGcs /\ other \in HeldGcs
  /\ TypeOf(gc) \in ValueTypes
  /\ TypeOf(other) = TypeOf(gc)
  /\ GcOp([op |-> "hash", lhs |-> gc, rhs |-> other,
           hashes |-> << Gc_hash(gc, << >>), Gc_hash(other, << >>) >>])

\* The handles the actions are tried on.
AllGcs == { Gc_from_raw(c, a) : c \in {expected_collector, ForeignCollector},
                                a \in Addrs \cup {ForeignAddr} }

\* The steps of a mutator between two safepoints: it allocates and it reads,
\* copies, compares and hashes the handles it holds.
NextGc ==
  \/ \E t \in Types, child \in Addrs \cup {NoAddr} : Alloc(t, child)
  \/ \E t \in ValueTypes, v \in Values : AllocValue(t, v)
  \/ \E gc \in AllGcs : Deref(gc)
  \/ \E gc \in AllGcs : Clone(gc)
  \/ \E gc \in AllGcs, other \in AllGcs : Eq(gc, other)
  \/ \E gc \in AllGcs, v \in Values : EqValue(gc, v)
  \/ \E gc \in AllGcs, other \in AllGcs : Hash(gc, other)

SpecGc == Init /\ [][NextGc]_vars

\* alloc::<T>, from the memory it got to the Gc it returns: the header is
\* written at the start of the memory and the payload at value_ptr.
AllocPointer ==
  /\ locals.op = "memory"
  /\ GcOp([op |-> "alloc", T |-> locals.T, header |-> locals.header,
           value_ptr |-> alloc_value_ptr(locals.T, locals.header)])

\* visit_gc on the Gc that alloc returned: the header it finds.
VisitPointer ==
  /\ locals.op = "alloc"
  /\ GcOp([op |-> "visit", T |-> locals.T, header |-> locals.header,
           value_ptr |-> locals.value_ptr,
           obj |-> from_value_ptr(locals.T, locals.value_ptr)])

NextLayout == AllocPointer \/ VisitPointer

\* The pointer arithmetic of one allocation and of the visit of its Gc.
SpecLayout == InitLayout /\ [][NextLayout]_vars

(***************************************************************************)
(* Trace for HashMap<K, V> and IndexMap<K, V> (manually_traced).  A map is *)
(* the sequence of its entries in the order iter_mut yields them; a        *)
(* visitor is [calls, result, fail_at]: the calls made on it, Ok or the    *)
(* Err it returned, and the number of the call at which it fails (0:       *)
(* never).                                                                 *)
(***************************************************************************)
MapKinds == {"HashMap", "IndexMap"}
\* The key and value types of the maps: one that needs tracing, one that does not.
EntryTypes == {"Node", "Word"}
MapKeys == 1..MaxEntries

MapEntries ==
  { e \in UNION { [1..n -> [key : MapKeys, value : Values]] : n \in 0..MaxEntries } :
      \A i \in DOMAIN e, j \in DOMAIN e : i # j => e[i].key # e[j].key }

GcVisitor(fail_at) == [calls |-> << >>, result |-> "Ok", fail_at |-> fail_at]

\* visitor.visit_immutable(item) / visitor.visit(item).
visitor_call(v, method, item) ==
  LET made == Append(v.calls, [method |-> method, item |-> item])
  IN [v EXCEPT !.calls = made,
               !.result = IF Len(made) = v.fail_at THEN "Err" ELSE "Ok"]

\* <Map<K, V> as Trace>::NEEDS_TRACE
Map_NEEDS_TRACE(K, V) == TypeInfo[K].NEEDS_TRACE \/ TypeInfo[V].NEEDS_TRACE

\* A defective loop body that visits the value only.
visit_entry_value_only(v, e) == visitor_call(v, "visit", [value |-> e.value])

\* The body of `for (key, value) in self.iter_mut()`; `?` returns the Err.
visit_entry(v, e) ==
  LET k == visitor_call(v, "visit_immutable", [key |-> e.key])
  IN IF k.result = "Err" THEN k
     ELSE visitor_call(k, "visit", [value |-> e.value])

RECURSIVE visit_entries(_, _)
visit_entries(v, entries) ==
  IF entries = << >> \/ v.result = "Err" THEN v
  ELSE visit_entries(visit_entry(v, Head(entries)), Tail(entries))

\* <HashMap<K, V> as Trace>::visit
HashMap_visit(K, V, entries, v) ==
  IF ~Map_NEEDS_TRACE(K, V) THEN v ELSE visit_entries(v, entries)

\* <IndexMap<K, V> as Trace>::visit
IndexMap_visit(K, V, entries, v) ==
  IF ~Map_NEEDS_TRACE(K, V) THEN v ELSE visit_entries(v, entries)

\* A map of either kind, with any entries, about to be visited by a visitor
\* that fails at any of its calls or at none.
InitMap ==
  /\ InitCollector
  /\ implicit_grey_stack = FALSE
  /\ handles = Untracked
  /\ locals \in { [op |-> "map", kind |-> kind, K |-> K, V |-> V, entries |-> e, fail_at |-> f] :
                     kind \in MapKinds, K \in EntryTypes, V \in EntryTypes,
                     e \in MapEntries, f \in 0..(2 * MaxEntries) }

\* map.visit(&mut visitor) on a HashMap.
HashMapVisit ==
  /\ locals.op = "map"
  /\ locals.kind = "HashMap"
  /\ GcOp([op |-> "map_visited", kind |-> locals.kind, K |-> locals.K, V |-> locals.V,
           entries |-> locals.entries, fail_at |-> locals.fail_at,
           NEEDS_TRACE |-> Map_NEEDS_TRACE(locals.K, locals.V),
           visitor |-> HashMap_visit(locals.K, locals.V, locals.entries, GcVisitor(locals.fail_at))])

\* map.visit(&mut visitor) on an IndexMap.
IndexMapVisit ==
  /\ locals.op = "map"
  /\ locals.kind = "IndexMap"
  /\ GcOp([op |-> "map_visited", kind |-> locals.kind, K |-> locals.K, V |-> locals.V,
           entries |-> locals.entries, fail_at |-> locals.fail_at,
           NEEDS_TRACE |-> Map_NEEDS_TRACE(locals.K, locals.V),
           visitor |-> IndexMap_visit(locals.K, locals.V, locals.entries, GcVisitor(locals.fail_at))])

NextMap == HashMapVisit \/ IndexMapVisit

SpecMap == InitMap /\ [][NextMap]_vars

(***************************************************************************)
(* The generic visit template of the derive macros (VisitImpl::Generic).   *)
(* A token stream is a sequence of token trees: punctuation, identifiers   *)
(* and delimited groups, which hold a token stream.                        *)
(***************************************************************************)
Punct(ch) == [kind |-> "Punct", ch |-> ch]
Ident(name) == [kind |-> "Ident", name |-> name]
Group(delim, stream) == [kind |-> "Group", delim |-> delim, stream |-> stream]

\* The names MagicVarType::parse_ident accepts.
MagicVars == {"mutability", "as_ref", "iter", "visit_func", "b"}

\* The token trees of the templates: the magic token, another punctuation,
\* the magic names, another identifier, and some groups.
GroupStreams ==
  { << >>, << Punct("#") >>, << Punct("#"), Punct("#") >>, << Punct("#"), Ident("b") >>,
    << Ident("self") >> }
TokenTrees ==
  { Punct("#"), Punct(".") } \cup { Ident(n) : n \in MagicVars \cup {"self"} }
    \cup { Group("(", g) : g \in GroupStreams }
TokenStreams == UNION { [1..n -> TokenTrees] : n \in 0..MaxTokens }

\* Result<TokenStream, Error>
Ok(tokens) == [ok |-> TRUE, tokens |-> tokens]
Err(error) == [ok |-> FALSE, error |-> error]

\* res.extend(tokens) / res.append(token), then the rest of the loop.
extended(tokens, rest) == IF rest.ok THEN Ok(tokens \o rest.tokens) ELSE rest

\* The substitution as the table in the documentation of VisitImpl gives it:
\* the one column under the mutable implementation, the other under the
\* immutable one.
magic_var_as_documented(name, mutable) ==
  CASE name = "mutability" -> Ok(IF mutable THEN << >> ELSE << Ident("mut") >>)
    [] name = "as_ref" -> Ok(IF mutable THEN << Ident("as_ref") >> ELSE << Ident("as_mut") >>)
    [] name = "iter" -> Ok(IF mutable THEN << Ident("iter") >> ELSE << Ident("iter_mut") >>)
    [] name = "visit_func" -> Ok(IF mutable THEN << Ident("visit") >> ELSE << Ident("visit_immutable") >>)
    [] name = "b" -> Ok(IF mutable THEN << Punct("&") >> ELSE << Punct("&"), Ident("mut") >>)
    [] OTHER -> Err("Invalid magic variable name")

\* The closure expand_impl passes to replace_magic_tokens: parse_ident, then
\* the tokens of the magic variable.
magic_var(name, mutable) ==
  CASE name = "mutability" -> Ok(IF mutable THEN << Ident("mut") >> ELSE << >>)
    [] name = "as_ref" -> Ok(IF mutable THEN << Ident("as_mut") >> ELSE << Ident("as_ref") >>)
    [] name = "iter" -> Ok(IF mutable THEN << Ident("iter_mut") >> ELSE << Ident("iter") >>)
    [] name = "visit_func" -> Ok(IF mutable THEN << Ident("visit") >> ELSE << Ident("visit_immutable") >>)
    [] name = "b" -> Ok(IF mutable THEN << Punct("&"), Ident("mut") >> ELSE << Punct("&") >>)
    [] OTHER -> Err("Invalid magic variable name")

RECURSIVE replace_magic_tokens(_, _)
\* replace_magic_tokens(input, func), func being the closure for `mutable`.
replace_magic_tokens(input, mutable) ==
  IF input = << >> THEN Ok(<< >>)
  ELSE LET item == Head(input)
           iter == Tail(input) IN
       CASE item.kind = "Group" ->
              LET new_stream == replace_magic_tokens(item.stream, mutable) IN
              IF ~new_stream.ok THEN new_stream
              ELSE extended(<< Group(item.delim, new_stream.tokens) >>,
                            replace_magic_tokens(iter, mutable))
         [] item = Punct("#") ->
              IF iter = << >> THEN Err("Unexpected EOF after magic token")
              ELSE LET p2 == Head(iter) IN
                   CASE p2 = Punct("#") ->
                          extended(<< p2 >>, replace_magic_tokens(Tail(iter), mutable))
                     [] p2.kind = "Ident" ->
                          LET res == magic_var(p2.name, mutable) IN
                          IF ~res.ok THEN res
                          ELSE extended(res.tokens, replace_magic_tokens(Tail(iter), mutable))
                     [] OTHER -> Err("Invalid token after magic token")
         [] OTHER -> extended(<< item >>, replace_magic_tokens(iter, mutable))

\* The trait expand_trace_impl(mutable) generates.
trait_name(mutable) == IF mutable THEN "Trace" ELSE "TraceImmutable"

\* A generic visit template about to be expanded.
InitTemplate ==
  /\ InitCollector
  /\ implicit_grey_stack = FALSE
  /\ handles = Untracked
  /\ locals \in { [op |-> "parse_visitor", generic_impl |-> t] : t \in TokenStreams }

\* expand_trace_impl(mutable), as far as the visit body: expand_impl(mutable)
\* on the generic template.
expand_trace_impl(mutable) ==
  /\ locals.op = "parse_visitor"
  /\ GcOp([op |-> "expand_impl", generic_impl |-> locals.generic_impl,
           trait_name |-> trait_name(mutable),
           tokens |-> replace_magic_tokens(locals.generic_impl, mutable)])

\* expand_output: self.expand_trace_impl(true)
ExpandTrace == expand_trace_impl(TRUE)

\* expand_output: self.expand_trace_impl(false)
ExpandTraceImmutable == expand_trace_impl(FALSE)

NextTemplate == ExpandTrace \/ ExpandTraceImmutable

SpecTemplate == InitTemplate /\ [][NextTemplate]_vars

\* A defective drop of the sub-context that runs maybe_collect, as a Drop
\* impl of the context would.
DropSubContext_collecting ==
  /\ pc = "mutator"
  /\ calls # << >>
  /\ calls[Len(calls)].op = "recurse_context"
  /\ strong_count' = strong_count - 1
  /\ IF should_collect
       THEN /\ roots' = shadow_stack
            /\ root_idx' = 1
            /\ grey_stack' = << >>
            /\ pc' = "mark_roots"
       ELSE /\ pc' = "recurse_pop"
            /\ UNCHANGED task_vars
  /\ UNCHANGED << build_vars, payload, locals, handles, trailing_root, heap_vars,
                  shadow_stack, calls, panicked >>

\* recurse_context, after the closure returned: drop(sub_context) releases
\* the sub-context's Rc of the collector.
DropSubContext ==
  /\ pc = "mutator"
  /\ calls # << >>
  /\ calls[Len(calls)].op = "recurse_context"
  /\ strong_count' = strong_count - 1
  /\ pc' = "recurse_pop"
  /\ UNCHANGED << build_vars, payload, locals, handles, trailing_root, heap_vars,
                  shadow_stack, calls, task_vars, panicked >>

\* recurse_context, after the drop of the sub-context: pop the root, assert
\* and return; the safepoint! of safepoint_recurse! is next.
RecursePop ==
  /\ pc = "recurse_pop"
  /\ PopRoot("recurse_context", "trailing_safepoint")
  /\ handles' = leave(handles)
  /\ trailing_root' = << calls[Len(calls)].value >>
  /\ UNCHANGED << build_vars, strong_count, payload, locals, heap_vars, task_vars >>

\* The steps of the program with the return of recurse_context taken in two:
\* the drop of the sub-context, then the pop of the root.
NextDrop ==
  \/ \E t \in Types, child \in Addrs \cup {NoAddr} : Alloc(t, child)
  \/ \E a \in Addrs, child \in Addrs \cup {NoAddr} : SetChild(a, child)
  \/ \E gcs \in RootValues : SafepointPush(gcs)
  \/ TrailingSafepointPush
  \/ MaybeCollect
  \/ MarkRoot
  \/ DrainGrey
  \/ DrainDone
  \/ Sweep
  \/ UpdateThreshold
  \/ SafepointPop
  \/ \E gcs \in RootValues : RecurseEnter(gcs)
  \/ DropSubContext
  \/ RecursePop

SpecDrop == Init /\ [][NextDrop]_vars

\* The steps of a program whose nested contexts are all entered through the
\* @managed_result form of safepoint_recurse!, whose roots are Gcs of this
\* collector and which links its objects when it allocates them only.
NextManaged ==
  \/ \E t \in Types, child \in Addrs \cup {NoAddr} : Alloc(t, child)
  \/ \E gcs \in RootValues : SafepointPush(gcs)
  \/ TrailingSafepointPush
  \/ MaybeCollect
  \/ MarkRoot
  \/ DrainGrey
  \/ DrainDone
  \/ Sweep
  \/ UpdateThreshold
  \/ SafepointPop
  \/ \E gcs \in RootValues : RecurseEnter(gcs)
  \/ \E result \in Addrs : RecurseExitManaged(result)

SpecManaged == Init /\ [][NextManaged]_vars

\* The steps of the build with the feature implicit-grey-stack, which has
\* no drain loop.
NextImplicit ==
  \/ \E t \in Types, child \in Addrs \cup {NoAddr} : Alloc(t, child)
  \/ \E a \in Addrs, child \in Addrs \cup {NoAddr} : SetChild(a, child)
  \/ \E gcs \in SafepointValues : SafepointPush(gcs)
  \/ TrailingSafepointPush
  \/ MaybeCollect
  \/ MarkRoot
  \/ Sweep
  \/ UpdateThreshold
  \/ SafepointPop
  \/ \E gcs \in RootValues : RecurseEnter(gcs)
  \/ RecurseExit

SpecImplicit == InitImplicit /\ [][NextImplicit]_vars

\* A step of CollectionTask::run.
CollectionStep == MarkRoot \/ DrainGrey \/ DrainDone \/ Sweep \/ UpdateThreshold

\* perform_collection is one call on one thread: once the task has started,
\* its next step is taken.
SpecLive == Init /\ [][Next]_vars /\ WF_vars(CollectionStep)

\* The collector under a mutator written in safe Rust.
SpecSafe == InitSafe /\ [][Next]_vars

(***************************************************************************)
(* Reachability and byte sums, the vocabulary of the properties.           *)
(***************************************************************************)
\* The Gcs held by the entries of a shadow stack.
RootSet(stack) ==
  UNION { { gc.value : gc \in Range(stack[i].gcs) } \cap Addrs : i \in 1..Len(stack) }

\* The objects reachable from the entries of the shadow stack.
Reachable == ReachFrom(RootSet(shadow_stack))

RECURSIVE SumTotalSize(_)
\* The sum of type_info.total_size over a set of allocated objects.
SumTotalSize(S) ==
  IF S = {} THEN 0
  ELSE LET a == CHOOSE x \in S : TRUE
       IN total_size(objs[a].ty) + SumTotalSize(S \ {a})

\* The free lists of all arenas.
OnFreeList(a) == \E c \in SizeClasses : a \in Range(small_arenas[c].free)

\* The number of times drop_func was invoked on the allocation at a, in a log.
CountIn(log, a) == Cardinality({ i \in 1..Len(log) : log[i] = a })

\* The only allocation is the one at a, its type has a destructor and no
\* root reaches it.
OneUnreachableDroppable(a) ==
  /\ Live = {a}
  /\ drop_func(objs[a].ty)
  /\ a \notin Reachable

\* A collection is running, or a safepoint is between its push and its pop.
InSafepoint ==
  pc \in {"maybe_collect", "mark_roots", "drain", "sweep", "update_threshold",
          "pop_uncollected", "pop_collected"}

\* A root value holds a Gc whose collector is not the one collecting.
HoldsForeign(gcs) == \E gc \in Range(gcs) : gc.collector_ptr # expected_collector

\* The sweep of the running collection has run (to its end or to its assert).
PostSweep == pc = "update_threshold" \/ panicked = "size_mismatch"

\* The thread is between collector operations or inside a safepoint that is
\* not collecting.
OutsideCollection ==
  pc \in {"mutator", "trailing_safepoint", "maybe_collect", "pop_uncollected", "pop_collected"}

(***************************************************************************)
(* Properties.                                                             *)
(***************************************************************************)

\* C1 (root preservation): after the sweep of a collection, every object
\* reachable from the shadow stack is still allocated: not freed, not on a
\* free list, still on the large list if it is a large object, and its
\* destructor has not been run.
C1_RootPreservation ==
  PostSweep =>
    \A a \in Reachable :
      /\ objs[a].status = "live"
      /\ ~OnFreeList(a)
      /\ (~is_small_object(objs[a].ty) => a \in Range(big_object_link))
      /\ a \notin Range(dropped)

\* A collection has swept, and an object reached only through a traced field
\* of another object is among the survivors.
C1_Witness ==
  /\ pc = "update_threshold"
  /\ \E a \in Reachable \ RootSet(shadow_stack) : objs[a].status = "live"

\* C2 as stated: when any safepoint is about to return, live_bytes is the sum
\* of total_size over the objects reachable from the shadow stack (checked
\* where the per-object byte accounting is exact, so that the difference is
\* due to unreachable objects only).
C2_EverySafepointLeavesReachableBytes ==
  (pc \in {"pop_uncollected", "pop_collected"} /\ allocated_size = SumTotalSize(Live))
    => allocated_size = SumTotalSize(Reachable)

\* C2 amended: when a safepoint that ran a collection is about to return,
\* live_bytes is the sum of total_size over the objects reachable from the
\* shadow stack.
C2_CollectingSafepointLeavesReachableBytes ==
  pc = "pop_collected" =>
    /\ Reachable \subseteq Live
    /\ allocated_size = SumTotalSize(Reachable)

\* A collecting safepoint is about to return with survivors.
C2_Witness ==
  /\ pc = "pop_collected"
  /\ Reachable # {}
  /\ allocated_size > 0

\* C3: after the sweep of a collection every allocated object is reachable
\* from the shadow stack, and a collection that ran while no root held a Gc
\* completed with no object left, live_bytes 0 and an empty large list.
C3_UnreachableReclaimed ==
  PostSweep =>
    /\ Live \subseteq Reachable
    /\ RootSet(shadow_stack) = {} =>
         /\ panicked = "none"
         /\ allocated_size = 0
         /\ big_object_link = << >>

\* C4: between operations, live_bytes is the sum of total_size over the
\* allocated objects.
C4_LiveBytesIsSumOfTotalSize ==
  pc = "mutator" => allocated_size = SumTotalSize(Live)

\* C5: outside a running collection, and after the sweep, every allocated
\* object is White.
C5_AllWhiteOutsideCollection ==
  (OutsideCollection \/ pc = "update_threshold") =>
    \A a \in Live : objs[a].state = "White"

\* A safepoint that collected is about to return and an object survived.
C5_Witness ==
  /\ pc = "pop_collected"
  /\ Live # {}

\* C6: the collector starts with threshold 2048 and live_bytes 0; the check of
\* a safepoint starts a collection iff live_bytes >= threshold; and the
\* threshold changes only at the end of a collection, so that no safepoint
\* collects before 2048 bytes are allocated.
C6_CollectIffAtThreshold ==
  /\ threshold = 2048 /\ allocated_size = 0
  /\ [][ /\ pc = "maybe_collect" => (pc' = "mark_roots" <=> allocated_size >= threshold)
         /\ pc = "maybe_collect" => pc' \in {"mark_roots", "pop_uncollected"}
         /\ pc # "update_threshold" => threshold' = threshold ]_vars

\* A collection was started by a check that found live_bytes = threshold.
C6_Witness ==
  /\ pc = "mark_roots"
  /\ root_idx = 1
  /\ allocated_size = threshold
  /\ allocated_size > 0

\* C7: a collection begins only at the check of a safepoint, and objects are
\* reclaimed only by the sweep of a collection: a step of the mutator (alloc
\* included) starts no collection, frees nothing and leaves the threshold.
C7_CollectionOnlyAtSafepoint ==
  [][ /\ (pc' \in {"mark_roots", "drain", "sweep"} /\ pc \notin {"mark_roots", "drain"})
           => pc = "maybe_collect"
      /\ (\E a \in Addrs : objs[a].status = "live" /\ objs'[a].status # "live")
           => pc = "sweep"
      /\ pc = "mutator" =>
           pc' \in {"mutator", "trailing_safepoint", "maybe_collect", "panicked"} ]_vars

\* The bytes added by the allocation of an object of type t.
AllocatedBytes(t) == IF is_small_object(t) THEN small_object_size(t) ELSE size_of_BigGcObject(t)

\* The mutator holds an object that was allocated while live_bytes was
\* already at or above the threshold, and no collection is running.
C7_Witness ==
  /\ pc = "mutator"
  /\ \E a \in Live : allocated_size - AllocatedBytes(objs[a].ty) >= threshold
  /\ allocated_size = SumTotalSize(Live)

C9_ThresholdNeverBelowInitial ==
  threshold >= INITIAL_COLLECTION_THRESHOLD

\* C9 amended: the threshold is the initial threshold until a collection ends;
\* a collection ends with a threshold below the initial one exactly when
\* fewer than two thirds of the initial threshold survive.
C9_ThresholdBelowInitialAfterSmallSurvival ==
  /\ threshold = INITIAL_COLLECTION_THRESHOLD
  /\ [][ /\ threshold' # threshold => pc = "update_threshold"
         /\ pc = "update_threshold" =>
              (threshold' < INITIAL_COLLECTION_THRESHOLD
                 <=> 3 * allocated_size < 2 * INITIAL_COLLECTION_THRESHOLD) ]_vars

\* A collection in which nothing survived has left the threshold at 0.
C9_Witness ==
  /\ pc = "pop_collected"
  /\ allocated_size = 0
  /\ threshold = 0

\* C10: the shadow stack holds exactly the roots of the active
\* basic_safepoint and recurse_context calls, in call order, each entry the
\* pointer its call pushed; the assertion at a pop never fails.
C10_ShadowStackBalanced ==
  /\ panicked # "root_mismatch"
  /\ Len(shadow_stack) = Len(calls)
  /\ \A i \in 1..Len(calls) :
       shadow_stack[i] = [ptr |-> calls[i].dyn_ptr, gcs |-> calls[i].value]
  /\ pc \in {"mutator", "trailing_safepoint"} =>
       \A i \in 1..Len(calls) : calls[i].op = "recurse_context"

\* A safepoint nested in a recurse_context closure has collected and is about
\* to pop its root from above the closure's root.
C10_Witness ==
  /\ pc = "pop_collected"
  /\ Len(shadow_stack) = 2
  /\ calls[1].op = "recurse_context"
  /\ calls[2].op = "basic_safepoint"

\* C11: a sweep invokes the drop function exactly once on every allocation
\* it reclaims whose type has one, and on nothing else: not on a survivor,
\* not on a slot already on a free list or a box already unlinked; no other
\* step of the collector invokes a drop function.
C11_DropExactlyOnceWhenReclaimed ==
  [][ /\ pc = "sweep" =>
           \A a \in Addrs :
             CountIn(dropped', a) =
               IF /\ objs[a].status = "live"
                  /\ objs'[a].status # "live"
                  /\ drop_func(objs[a].ty)
                 THEN 1 ELSE 0
      /\ pc # "sweep" => dropped' \in {dropped, << >>} ]_vars

\* A sweep has freed a small slot, running its destructor, while another
\* allocation survived with its destructor not run.
C11_Witness ==
  /\ pc = "update_threshold"
  /\ \E a \in Range(dropped) : OnFreeList(a)
  /\ \E b \in Live : b \notin Range(dropped)

\* C12 as stated: with one allocated value, whose type has a destructor and
\* which no root reaches, a safepoint runs the destructor exactly once: the
\* sweep of the safepoint drops exactly that value, and a safepoint that
\* returns without collecting has one destructor call to its name.
C12_SafepointDropsUnreachableOnce ==
  [][ \A a \in Addrs :
        OneUnreachableDroppable(a) =>
          /\ pc = "sweep" => dropped' = << a >>
          /\ pc = "pop_uncollected" => Len(dropped) = 1 ]_vars

\* C12 amended: with one allocated value, whose type has a destructor and
\* which no root reaches, a safepoint whose check finds live_bytes >=
\* threshold runs the destructor exactly once, in its sweep; a safepoint
\* whose check finds live_bytes < threshold collects nothing, runs no
\* destructor and leaves the value allocated.
C12_CollectingSafepointDropsUnreachableOnce ==
  [][ \A a \in Addrs :
        OneUnreachableDroppable(a) =>
          /\ pc = "maybe_collect" =>
               (pc' = "pop_uncollected" <=> allocated_size < threshold)
          /\ pc = "sweep" => dropped' = << a >>
          /\ pc = "pop_uncollected" => (dropped = << >> /\ objs' = objs) ]_vars

\* The sweep of a safepoint has reclaimed the only allocation and run its
\* destructor once.
C12_Witness ==
  /\ pc = "update_threshold"
  /\ Len(dropped) = 1
  /\ Live = {}
  /\ allocated_size = 0

\* C13: a collection whose roots hold a Gc of another collector panics at
\* the visit of that Gc: marking never gets past such a root, and the object
\* of the other collector keeps its header (mark state) and payload.
\* Conversely the Gc of every allocation of this collector carries this
\* collector, and the check fails only on a root that holds a foreign Gc.
C13_ForeignGcAbortsMarking ==
  /\ objs[ForeignAddr] = ForeignObj
  /\ pc = "mark_roots" => \A i \in 1..(root_idx - 1) : ~HoldsForeign(roots[i].gcs)
  /\ pc \in {"drain", "sweep", "update_threshold", "pop_collected"} =>
       \A i \in 1..Len(shadow_stack) : ~HoldsForeign(shadow_stack[i].gcs)
  /\ panicked = "wrong_collector" =>
       /\ pc = "panicked"
       /\ root_idx <= Len(roots)
       /\ HoldsForeign(roots[root_idx].gcs)
  /\ \A a \in Live : GcOf(a).collector_ptr = expected_collector

\* A collection has panicked at the visit of a Gc of the other collector,
\* after it had marked an object of its own.
C13_Witness ==
  /\ panicked = "wrong_collector"
  /\ \E a \in Live : objs[a].state # "White"

\* C14: the events of one safepoint are ordered: the push of the root, the
\* check, then (if triggered) the marking of the roots, the drain of the
\* grey stack, the sweep, the threshold update, and last the pop of the
\* root.  No object is freed before the marking has finished, the shadow
\* stack is untouched between the push and the pop, and the threshold is
\* computed from live_bytes as the sweep left it.
C14_SafepointEventsOrdered ==
  [][ /\ pc' = "maybe_collect" =>
           /\ pc \in {"mutator", "trailing_safepoint"}
           /\ shadow_stack' = Append(shadow_stack, shadow_stack'[Len(shadow_stack')])
      /\ pc = "maybe_collect" =>
           /\ pc' \in {"mark_roots", "pop_uncollected"}
           /\ pc' = "mark_roots" => roots' = shadow_stack /\ root_idx' = 1
      /\ pc = "mark_roots" =>
           pc' \in {"mark_roots", IF implicit_grey_stack THEN "sweep" ELSE "drain", "panicked"}
      /\ pc = "drain" => pc' \in {"drain", "sweep", "panicked"}
      /\ pc' = "sweep" => grey_stack' = << >> /\ root_idx' = Len(roots') + 1
      /\ pc = "sweep" => pc' \in {"update_threshold", "panicked"}
      /\ pc \in {"mark_roots", "drain"} =>
           /\ \A a \in Addrs : objs'[a].status = objs[a].status
           /\ << small_arenas', big_object_link', allocated_size', dropped' >>
                = << small_arenas, big_object_link, allocated_size, dropped >>
      /\ pc = "update_threshold" =>
           /\ pc' = "pop_collected"
           /\ allocated_size' = allocated_size
           /\ threshold' = allocated_size + (allocated_size \div 2)
      /\ pc \in {"pop_uncollected", "pop_collected"} =>
           /\ pc' \in {"mutator", "panicked"}
           /\ shadow_stack = Append(shadow_stack', shadow_stack[Len(shadow_stack)])
           /\ << objs', allocated_size', threshold' >> = << objs, allocated_size, threshold >>
      /\ pc \in {"maybe_collect", "mark_roots", "drain", "sweep", "update_threshold"} =>
           shadow_stack' = shadow_stack
      /\ pc # "update_threshold" => threshold' = threshold ]_vars

\* The sweep of a safepoint has reclaimed objects and lowered live_bytes
\* below the threshold, which is still the one that triggered the collection;
\* the root of the safepoint is still on the shadow stack.
C14_Witness ==
  /\ pc = "update_threshold"
  /\ dropped # << >>
  /\ 0 < allocated_size /\ allocated_size < threshold
  /\ shadow_stack # << >>
  /\ calls[Len(calls)].op = "basic_safepoint"

\* C15: no step of a collection moves or rewrites an object: an allocation
\* found at an address after the step was at that address before it, with
\* the same type_info and the same payload; the slots of the arenas stay
\* where they are, the large list gains no box, and the root values are not
\* rewritten.
C15_CollectionLeavesSurvivorsInPlace ==
  [][ (pc \in {"maybe_collect", "mark_roots", "drain", "sweep", "update_threshold"}) =>
      ( /\ \A a \in Addrs :
             objs'[a].status = "live" =>
               /\ objs[a].status = "live"
               /\ objs'[a].ty = objs[a].ty
               /\ objs'[a].child = objs[a].child
        /\ \A c \in SizeClasses : small_arenas'[c].slots = small_arenas[c].slots
        /\ Range(big_object_link') \subseteq Range(big_object_link)
        /\ shadow_stack' = shadow_stack
        /\ calls' = calls ) ]_vars

\* A sweep has reclaimed an object and retained another whose payload holds
\* a Gc.
C15_Witness ==
  /\ pc = "update_threshold"
  /\ dropped # << >>
  /\ \E a \in Live : objs[a].child # NoAddr

\* C16: the root of every active recurse_context call is on the shadow
\* stack, at the position of the call, for as long as its closure runs, and
\* after the sweep of a collection started inside the closure every object
\* reachable from that root is still allocated and has not been dropped.
C16_RecurseRootSurvivesClosure ==
  \A i \in 1..Len(calls) :
    calls[i].op = "recurse_context" =>
      /\ i <= Len(shadow_stack)
      /\ shadow_stack[i].gcs = calls[i].value
      /\ PostSweep =>
           \A a \in ReachFrom(GcValues(calls[i].value)) :
             /\ objs[a].status = "live"
             /\ a \notin Range(dropped)

\* A safepoint with root (), inside the closure of a recurse_context whose
\* root holds a Gc, has swept: it reclaimed an object and kept the root's.
C16_Witness ==
  /\ pc = "update_threshold"
  /\ Len(calls) = 2
  /\ calls[1].op = "recurse_context"
  /\ calls[1].value # << >>
  /\ calls[2].value = << >>
  /\ dropped # << >>
  /\ GcValues(calls[1].value) \subseteq Live

\* C19: safepoint_recurse! runs its closure inside recurse_context (the root
\* is pushed before the closure and popped after it) and then, with the
\* recurse_context returned and before anything else, begins one safepoint
\* on the same context with the same root; that safepoint is pending exactly
\* from the return of recurse_context to its own push, so it runs once per
\* invocation.
C19_RecurseThenOneTrailingSafepoint ==
  /\ [](pc = "trailing_safepoint" <=> trailing_root # << >>)
  /\ [][
          /\ (pc = "mutator" /\ pc' = "mutator" /\ calls' # calls) =>
               /\ Len(calls') = Len(calls) + 1
               /\ calls' = Append(calls, calls'[Len(calls')])
               /\ calls'[Len(calls')].op = "recurse_context"
               /\ shadow_stack' = Append(shadow_stack,
                                         [ptr |-> calls'[Len(calls')].dyn_ptr,
                                          gcs |-> calls'[Len(calls')].value])
          /\ pc' = "trailing_safepoint" =>
               /\ pc = "mutator"
               /\ calls # << >>
               /\ calls = Append(calls', calls[Len(calls)])
               /\ calls[Len(calls)].op = "recurse_context"
               /\ shadow_stack = Append(shadow_stack', shadow_stack[Len(shadow_stack)])
               /\ trailing_root' = << calls[Len(calls)].value >>
          /\ (pc = "mutator" /\ Len(calls') < Len(calls)) =>
               pc' \in {"trailing_safepoint", "panicked"}
          /\ pc = "trailing_safepoint" =>
               /\ pc' = "maybe_collect"
               /\ trailing_root' = << >>
               /\ calls' = Append(calls, [op |-> "basic_safepoint",
                                          value |-> trailing_root[1],
                                          dyn_ptr |-> calls'[Len(calls')].dyn_ptr])
               /\ shadow_stack' = Append(shadow_stack,
                                         [ptr |-> calls'[Len(calls')].dyn_ptr,
                                          gcs |-> trailing_root[1]])
          /\ pc \notin {"mutator", "trailing_safepoint"} => trailing_root' = trailing_root ]_vars

\* The recurse_context of a safepoint_recurse! with a Gc as root has
\* returned, after a collection, and the trailing safepoint is about to begin.
C19_Witness ==
  /\ pc = "trailing_safepoint"
  /\ trailing_root # << << >> >>
  /\ threshold # INITIAL_COLLECTION_THRESHOLD
  /\ Live # {}

\* C20: every safepoint in progress, and so every collection, belongs to a
\* basic_safepoint call, the newest call on the shadow stack; while the
\* closure of a recurse_context runs between safepoints, and when
\* recurse_context has popped its root and returned, no collection is in
\* progress and none has run since the last safepoint returned.
C20_RecurseContextNeverCollects ==
  /\ (InSafepoint \/ panicked \in {"wrong_collector", "grey_at_sweep", "size_mismatch"}) =>
       /\ calls # << >>
       /\ calls[Len(calls)].op = "basic_safepoint"
  /\ pc \in {"mutator", "trailing_safepoint"} =>
       /\ roots = << >>
       /\ grey_stack = << >>
       /\ dropped = << >>
       /\ \A a \in Live : objs[a].state = "White"

\* recurse_context has returned with live_bytes at or above the threshold,
\* and no collection has run.
C20_Witness ==
  /\ pc = "trailing_safepoint"
  /\ allocated_size >= threshold
  /\ Live # {}

\* C17: while the closure of a safepoint_recurse! runs, a collection started
\* by a safepoint on the nested context reclaims no object that safe code
\* still holds a Gc to through one of the enclosing contexts (a Gc allocated
\* there before the call and captured by the closure).
C17_NoCapturedHandleReclaimed ==
  PostSweep =>
    \A k \in 1..(Len(handles) - 1) :
      \A a \in handles[k] : objs[a].status = "live"

\* C18: between operations, and so after every safepoint has returned, every
\* Gc that safe code can still name points to an allocated object: safe code
\* never dereferences a reclaimed one.
C18_SafeCodeNamesOnlyAllocatedObjects ==
  pc = "mutator" =>
    \A k \in 1..Len(handles) :
      \A a \in handles[k] : objs[a].status = "live"

\* C21: in the @managed_result form of safepoint_recurse!, the object the
\* closure returns is allocated when recurse_context returns and stays so,
\* with the heap untouched, until the trailing safepoint has pushed its root;
\* that root is the pair of the original root and the result, and the sweep
\* of the trailing safepoint reclaims neither.
C21_ManagedResultSurvives ==
  /\ [](pc = "trailing_safepoint" => GcValues(trailing_root[1]) \subseteq Live)
  /\ [][
          /\ (pc = "mutator" /\ pc' = "trailing_safepoint") =>
               /\ \E result \in Live :
                    trailing_root' = << calls[Len(calls)].value \o << GcOf(result) >> >>
               /\ heap_vars' = heap_vars
          /\ pc = "trailing_safepoint" =>
               /\ heap_vars' = heap_vars
               /\ shadow_stack'[Len(shadow_stack')].gcs = trailing_root[1]
          /\ (pc = "sweep" /\ calls # << >>) =>
               \A a \in GcValues(calls[Len(calls)].value) :
                 /\ objs'[a].status = "live"
                 /\ a \notin Range(dropped') ]_vars

\* The trailing safepoint of a @managed_result call has swept with the pair
\* of the original root and the closure's result as its root, two different
\* objects, and both are still allocated.
C21_Witness ==
  /\ pc = "update_threshold"
  /\ Len(calls) = 1
  /\ Len(calls[1].value) = 2
  /\ calls[1].value[1] # calls[1].value[2]
  /\ GcValues(calls[1].value) \subseteq Live

\* C22: the contexts of the collector share one shadow stack, which holds
\* the root of every active call of every context; the roots of a running
\* collection are exactly the entries of that stack, and marking treats
\* nothing else as a root: an object it has marked is reachable from an
\* entry, and when marking has finished every object reachable from an entry
\* (of the safepoint or of an enclosing recurse_context) is Black.
C22_ShadowStackIsTheRootSet ==
  /\ Len(shadow_stack) = Len(calls)
  /\ pc \in {"mark_roots", "drain", "sweep", "update_threshold"} =>
       roots = shadow_stack
  /\ pc \in {"mark_roots", "drain", "sweep"} =>
       /\ \A a \in Live : objs[a].state # "White" => a \in Reachable
       /\ Range(grey_stack) \subseteq Reachable
  /\ pc = "sweep" =>
       \A a \in Reachable : objs[a].state = "Black"

\* Marking has finished in a safepoint nested in a recurse_context closure:
\* the root of the closure and the root of the safepoint hold different
\* objects, and both are Black.
C22_Witness ==
  /\ pc = "sweep"
  /\ Len(shadow_stack) = 2
  /\ calls[1].op = "recurse_context"
  /\ GcValues(shadow_stack[1].gcs) # {}
  /\ GcValues(shadow_stack[2].gcs) # {}
  /\ GcValues(shadow_stack[1].gcs) # GcValues(shadow_stack[2].gcs)
  /\ \A a \in RootSet(shadow_stack) : objs[a].state = "Black"

\* The recurse_context calls whose sub-context is alive.
SubContexts ==
  Cardinality({ i \in 1..Len(calls) : calls[i].op = "recurse_context" })
    - (IF pc = "recurse_pop" THEN 1 ELSE 0)

\* C23: the drop of a context (the sub-context, at the end of
\* recurse_context) releases one reference to the collector and does nothing
\* else: it starts no collection and leaves the heap, live_bytes, the
\* threshold, the shadow stack and the collection task as they are; the
\* collector is referenced by exactly the contexts alive, of which there is
\* always one, and so outlives the drop.
C23_ContextDropLeavesCollector ==
  /\ [](strong_count = 1 + SubContexts)
  /\ [][ strong_count' < strong_count =>
            /\ strong_count' = strong_count - 1
            /\ strong_count' >= 1
            /\ UNCHANGED << objs, small_arenas, big_object_link, payload, dropped >>
            /\ allocated_size' = allocated_size
            /\ threshold' = threshold
            /\ shadow_stack' = shadow_stack
            /\ UNCHANGED task_vars
            /\ panicked' = panicked
            /\ pc' = "recurse_pop" ]_vars

\* A sub-context has been dropped while live_bytes was at or above the
\* threshold: its root is still on the shadow stack, no collection has run
\* and only the outer context is left.
C23_Witness ==
  /\ pc = "recurse_pop"
  /\ strong_count = 1
  /\ allocated_size >= threshold
  /\ Live # {}
  /\ Len(shadow_stack) = 1
  /\ \A a \in Live : objs[a].state = "White"

\* C24: a dereference, a copy or clone, a comparison or a hash of Gc handles
\* starts no collection and changes nothing of the collector: the headers
\* and payloads, the arenas with their free lists, the large list,
\* live_bytes, the threshold, the shadow stack and the collection task stay
\* as they are, also when live_bytes is at or above the threshold.
C24_HandleOperationsLeaveCollector ==
  [][ locals' # locals =>
        /\ pc = "mutator" /\ pc' = "mutator"
        /\ UNCHANGED << objs, payload, small_arenas, big_object_link, dropped >>
        /\ allocated_size' = allocated_size
        /\ threshold' = threshold
        /\ shadow_stack' = shadow_stack
        /\ calls' = calls
        /\ UNCHANGED task_vars
        /\ panicked' = panicked ]_vars

\* The mutator has dereferenced a Gc while live_bytes was at or above the
\* threshold, and no collection has begun.
C24_Witness ==
  /\ locals.op = "deref"
  /\ locals.gc.collector_ptr = expected_collector
  /\ allocated_size >= threshold
  /\ pc = "mutator"
  /\ Cardinality(Live) = MaxObjs

\* C25: the comparison of two Gc handles is the comparison of their
\* payloads and their hashes are the hashes of their payloads: handles to
\* different allocations, also of different collectors, are equal and hash
\* equally whenever the payloads are equal, and are unequal whenever the
\* payloads differ; a Gc equals a plain value exactly when its payload is
\* that value.
C25_EqualityAndHashByPayload ==
  /\ locals.op = "eq" =>
       (locals.result <=> payload[locals.lhs.value] = payload[locals.rhs.value])
  /\ locals.op = "eq_value" =>
       (locals.result <=> payload[locals.lhs.value] = locals.rhs_value)
  /\ locals.op = "hash" =>
       (payload[locals.lhs.value] = payload[locals.rhs.value]
          => locals.hashes[1] = locals.hashes[2])

\* Two handles of different collectors, to different allocations with equal
\* payloads, have compared equal.
C25_Witness ==
  /\ locals.op = "eq"
  /\ locals.lhs.value # locals.rhs.value
  /\ locals.lhs.collector_ptr # locals.rhs.collector_ptr
  /\ locals.result = TRUE

\* C26: for every type, small or large, and every address of the memory,
\* the payload pointer p that alloc returns is the header address plus
\* value_offset(T): value() of the header that alloc wrote is p, and
\* from_value_ptr(p) is the address of that header.
C26_HeaderInversionExact ==
  /\ locals.op \in {"alloc", "visit"} =>
       /\ GcHeader_value(locals.header, locals.T) = locals.value_ptr
       /\ locals.header + VALUE_OFFSET(locals.T) = locals.value_ptr
       /\ from_value_ptr(locals.T, locals.value_ptr) = locals.header
  /\ locals.op = "visit" => locals.obj = locals.header

\* The visit of a Gc to a large object whose alignment is above that of the
\* header, so that padding precedes the payload, has found the header.
C26_Witness ==
  /\ locals.op = "visit"
  /\ ~is_small_object(locals.T)
  /\ TypeInfo[locals.T].align > ARENA_ELEMENT_ALIGN
  /\ locals.value_ptr - locals.header > BigGcObjectBaseSize
  /\ locals.obj = locals.header

\* The step has visited the object at a, with the grey stack g before the
\* visit: the header of a and the grey stack have changed as C27 says, and
\* nothing else of the object has.
VisitedAs(a, g) ==
  LET white == objs[a].state = "White"
      traced == TypeInfo[objs[a].ty].NEEDS_TRACE IN
  /\ objs'[a].state = IF white /\ ~traced THEN "Black"
                      ELSE IF white /\ traced THEN "Grey"
                      ELSE objs[a].state
  /\ grey_stack' = IF white /\ traced THEN Append(g, a) ELSE g
  /\ objs'[a] = [objs[a] EXCEPT !.state = objs'[a].state]

\* C27: a visit of visit_gc changes the header of its target and the grey
\* queue in exactly one of these ways, and nothing else: White without
\* NEEDS_TRACE becomes Black and nothing is pushed; White with NEEDS_TRACE
\* becomes Grey and is pushed; Grey and Black stay and nothing is pushed.
\* The visits are those of the root loop (the Gc of the root) and of the
\* drain loop (the Gc field of the popped object, which is then Black).
C27_VisitGcTransitions ==
  [][ /\ (pc = "mark_roots" /\ pc' # "panicked") =>
           LET gcs == roots[root_idx].gcs IN
           IF gcs = << >>
             THEN objs' = objs /\ grey_stack' = grey_stack
             ELSE /\ Len(gcs) = 1
                  /\ VisitedAs(gcs[1].value, grey_stack)
                  /\ \A b \in Addrs \ {gcs[1].value} : objs'[b] = objs[b]
      /\ (pc = "drain" /\ grey_stack # << >>) =>
           LET obj == grey_stack[Len(grey_stack)]
               rest == SubSeq(grey_stack, 1, Len(grey_stack) - 1)
               target == objs[obj].child IN
           /\ objs[obj].state = "Grey"
           /\ objs'[obj].state = "Black"
           /\ IF target \in {NoAddr, obj}
                THEN grey_stack' = rest
                ELSE VisitedAs(target, rest)
           /\ \A b \in Addrs \ {obj, target} : objs'[b] = objs[b] ]_vars

\* The drain loop has visited a Black object that needs tracing (the field
\* of the popped object closes a cycle): it stayed Black and the grey stack
\* is empty.
C27_Witness ==
  /\ pc = "drain"
  /\ grey_stack = << >>
  /\ \E a \in Live, b \in Live :
       /\ a # b
       /\ objs[a].child = b /\ objs[b].child = a
       /\ objs[a].state = "Black" /\ objs[b].state = "Black"

\* The trace of the root that the root loop is about to run.
NextRootTrace == trace_root(MarkVisitor(objs, grey_stack), roots[root_idx].gcs)

\* The states stored to the header of the object at a, in order.
StoresTo(writes, a) ==
  LET ws == SelectSeq(writes, LAMBDA w : w.obj = a)
  IN [i \in 1..Len(ws) |-> ws[i].state]

\* C28 as stated: with the implicit grey stack the trace of a root never
\* stores Grey to a header: an object goes from White to Black directly.
C28_NoIntermediateGrey ==
  (implicit_grey_stack /\ pc = "mark_roots") =>
    \A i \in 1..Len(NextRootTrace.writes) : NextRootTrace.writes[i].state # "Grey"

\* C28 amended: with the implicit grey stack nothing is pushed on the grey
\* stack and no object is Grey between two steps of the collection; inside
\* the trace of a root, an object that needs tracing and is found White is
\* stored Grey when its visit begins and Black when the visits of its fields
\* have returned (by then the object its field leads to has been marked),
\* an object that needs no tracing is stored Black only, and every other
\* header is left alone.
C28_GreyOnlyDuringRecursion ==
  /\ implicit_grey_stack
  /\ grey_stack = << >>
  /\ \A a \in Live : objs[a].state # "Grey"
  /\ pc = "mark_roots" =>
       LET m == NextRootTrace IN
       /\ m.grey = << >>
       /\ \A a \in Addrs :
            LET stores == StoresTo(m.writes, a) IN
            /\ m.objs[a].state # "Grey"
            /\ stores = IF m.objs[a].state = objs[a].state THEN << >>
                        ELSE IF TypeInfo[objs[a].ty].NEEDS_TRACE THEN << "Grey", "Black" >>
                        ELSE << "Black" >>
       /\ \A j \in 1..Len(m.writes) :
            LET child == objs[m.writes[j].obj].child IN
            (/\ m.writes[j].state = "Black"
             /\ TypeInfo[objs[m.writes[j].obj].ty].NEEDS_TRACE
             /\ child # NoAddr)
            => \/ objs[child].state # "White"
               \/ \E k \in 1..(j - 1) : m.writes[k].obj = child

\* The root loop is about to trace a root that leads into a cycle of two
\* White objects: the trace stores Grey to both before it stores Black to
\* either.
C28_Witness ==
  /\ implicit_grey_stack
  /\ pc = "mark_roots"
  /\ Len(NextRootTrace.writes) = 4
  /\ NextRootTrace.writes[1].state = "Grey"
  /\ NextRootTrace.writes[2].state = "Grey"
  /\ NextRootTrace.writes[2].obj # NextRootTrace.writes[1].obj
  /\ objs[NextRootTrace.writes[2].obj].child = NextRootTrace.writes[1].obj

\* The heap the running collection started from: marking writes nothing but
\* the mark states, and a collection starts with every header White.
HeapAtStart == [a \in DOMAIN objs |-> [objs[a] EXCEPT !.state = "White"]]

\* Marking by recursion (feature implicit-grey-stack) of the heap the running
\* collection started from, from the roots it took.
RecursiveMarking == run_roots(MarkVisitorOf(HeapAtStart, << >>, TRUE), roots)

\* What a collection whose marking left the headers o reclaims and computes.
CollectionOutcome(o) ==
  LET w == sweep_from(o) IN
  [reclaimed |-> { a \in Addrs : o[a].status = "live" /\ w.objs[a].status # "live" },
   live_bytes |-> w.actual_size,
   threshold |-> w.actual_size + (w.actual_size \div 2),
   panic |-> w.panic]

\* The objects the roots taken by the running collection lead to.
ReachableFromRoots == ReachFrom(RootSet(roots))

\* C29: marking with the explicit grey queue and marking by recursion are
\* equivalent.  A collection starts from a heap whose headers are all White;
\* when the marking with the grey queue has ended, the headers it leaves are
\* those the recursive marking of the same heap from the same roots leaves:
\* Black exactly on the objects reachable from the roots, White elsewhere, no
\* Grey, so that the sweep reclaims the same objects and yields the same
\* live_bytes and threshold; and the one fails on a Gc of another collector
\* iff the other does.
C29_MarkingModesEquivalent ==
  /\ ~implicit_grey_stack
  /\ (pc = "mark_roots" /\ root_idx = 1) => objs = HeapAtStart
  /\ pc = "sweep" =>
       /\ RecursiveMarking.panic = "none"
       /\ RecursiveMarking.objs = objs
       /\ { a \in Live : objs[a].state = "Black" } = ReachableFromRoots
       /\ { a \in Live : RecursiveMarking.objs[a].state = "Black" } = ReachableFromRoots
       /\ \A a \in Live : objs[a].state # "Grey"
       /\ CollectionOutcome(RecursiveMarking.objs) = CollectionOutcome(objs)
  /\ (pc = "panicked" /\ panicked = "wrong_collector") =>
       RecursiveMarking.panic = "wrong_collector"

\* The marking with the grey queue has ended on a heap with a cycle of two
\* objects, both reachable from the roots.
C29_Witness ==
  /\ pc = "sweep"
  /\ \E a \in Live, b \in Live :
       /\ a # b
       /\ objs[a].child = b
       /\ objs[b].child = a
       /\ objs[a].state = "Black"
       /\ objs[b].state = "Black"

\* The roots the running collection took are all Gcs of this collector.
OwnRoots == \A i \in 1..Len(roots) : ~HoldsForeign(roots[i].gcs)

\* The marking of every collection ends: it reaches the sweep, or the assert
\* of visit_gc on a Gc of another collector.
C30_MarkingTerminates ==
  (pc \in {"mark_roots", "drain"}) ~> (pc = "sweep" \/ panicked = "wrong_collector")

\* C30: marking always terminates, also on object graphs with cycles and
\* shared sub-structures: every collection over roots of this collector
\* reaches the sweep and returns.
C30_CollectionReturns ==
  (pc = "mark_roots" /\ OwnRoots) ~> (pc = "pop_collected")

\* The mark states the allocated objects have in the headers o.
StatesOfLive(o) == { o[a].state : a \in { b \in Addrs : o[b].status = "live" } }

\* C31: at the start of every sweep no allocated object is Grey, so the
\* sweep's panic on a Grey object does not happen, with the grey queue (the
\* steps of the model) and with the recursive marking of the same heap from
\* the same roots; every object the sweep sees is White and unreachable from
\* the roots, or Black and reachable.
C31_NoGreyAtSweep ==
  /\ panicked # "grey_at_sweep"
  /\ pc = "sweep" =>
       /\ "Grey" \notin StatesOfLive(objs)
       /\ "Grey" \notin StatesOfLive(RecursiveMarking.objs)
       /\ sweep.panic # "grey_at_sweep"
       /\ sweep_from(RecursiveMarking.objs).panic # "grey_at_sweep"
       /\ \A a \in Live :
            /\ objs[a].state = "White" <=> a \notin ReachableFromRoots
            /\ objs[a].state = "Black" <=> a \in ReachableFromRoots

\* A sweep is about to start on a heap with a reachable object that needs
\* tracing, marked Black, and an unreachable one, left White.
C31_Witness ==
  /\ pc = "sweep"
  /\ \E a \in Live, b \in Live :
       /\ TypeInfo[objs[a].ty].NEEDS_TRACE
       /\ objs[a].state = "Black"
       /\ objs[b].state = "White"

\* The objects the sweep about to run reclaims, and those it retains.
ReclaimedBySweep == { a \in Live : sweep.objs[a].status # "live" }
RetainedBySweep == Live \ ReclaimedBySweep

\* C32: the sweep's closing assert_eq!(expected_size, actual_size) never
\* fails: at every sweep, live_bytes less the total_size of every reclaimed
\* object is the sum of total_size over the retained objects, and that sum is
\* live_bytes after the sweep.
C32_AccountingCheckNeverFails ==
  /\ panicked # "size_mismatch"
  /\ pc = "sweep" =>
       /\ sweep.panic # "size_mismatch"
       /\ allocated_size - SumTotalSize(ReclaimedBySweep) = SumTotalSize(RetainedBySweep)
  /\ pc = "update_threshold" => allocated_size = SumTotalSize(Live)

\* The object at a holds a traced reference to the object at b: a's type
\* needs tracing and its Gc field points to b.
TracedRef(a, b) ==
  /\ objs[a].status = "live"
  /\ TypeInfo[objs[a].ty].NEEDS_TRACE
  /\ objs[a].child = b

\* C33 (tri-colour invariant): while the roots are marked, throughout the
\* drain of the grey queue and when the marking has ended, no Black object
\* holds a traced reference to a White object: an object that needs tracing
\* is Black only when the Gc field its trace reports has been visited, so
\* that the target is Grey or Black.
C33_NoBlackToWhite ==
  (pc \in {"mark_roots", "drain", "sweep"}) =>
    \A a \in Live, b \in Live :
      (objs[a].state = "Black" /\ TracedRef(a, b)) => objs[b].state \in {"Grey", "Black"}

\* In the middle of the drain: an object has been scanned and turned Black
\* while the object its field points to is still Grey, on the grey queue.
C33_Witness ==
  /\ pc = "drain"
  /\ \E a \in Live, b \in Live :
       /\ a # b
       /\ objs[a].state = "Black"
       /\ TracedRef(a, b)
       /\ objs[b].state = "Grey"
       /\ b \in Range(grey_stack)

\* The number of entries of the grey stack g that are the object at a.
TimesQueued(g, a) == Cardinality({ i \in 1..Len(g) : g[i] = a })

\* C34: within one collection each object is pushed onto the grey queue at
\* most once and scanned at most once.  The entries of the grey queue are
\* exactly the Grey objects, each once; a step of the marking pushes only
\* objects that were White, pops only its top entry, which turns from Grey to
\* Black, and a Black object stays Black until the sweep, so that it is not
\* pushed or scanned again whatever refers to it.
C34_QueuedAndScannedOnce ==
  /\ []((pc \in {"mark_roots", "drain", "sweep"}) =>
          \A a \in Addrs :
            TimesQueued(grey_stack, a) = IF a \in Live /\ objs[a].state = "Grey" THEN 1 ELSE 0)
  /\ [][ (pc \in {"mark_roots", "drain"}) =>
         \A a \in Addrs :
           /\ TimesQueued(grey_stack', a) > TimesQueued(grey_stack, a) =>
                objs[a].state = "White"
           /\ TimesQueued(grey_stack', a) < TimesQueued(grey_stack, a) =>
                /\ pc = "drain"
                /\ a = grey_stack[Len(grey_stack)]
                /\ objs[a].state = "Grey"
                /\ objs'[a].state = "Black"
           /\ (objs[a].state = "Grey" /\ objs'[a].state # "Grey") =>
                TimesQueued(grey_stack', a) < TimesQueued(grey_stack, a)
           /\ objs[a].state = "Black" => objs'[a].state = "Black" ]_vars

\* The drain has ended on a cycle of two objects: the second object scanned
\* visited the first, already Black, and did not push it again.
C34_Witness ==
  /\ pc = "drain"
  /\ grey_stack = << >>
  /\ \E a \in Live, b \in Live :
       /\ a # b
       /\ TracedRef(a, b)
       /\ TracedRef(b, a)
       /\ objs[a].state = "Black"
       /\ objs[b].state = "Black"

\* The allocated objects that alloc_big made: boxes on the large list.
LargeObjects == { a \in Live : ~is_small_object(objs[a].ty) }

\* C35: the large-object list always holds every allocated large object
\* exactly once and nothing else; alloc_big puts the new box at the head, in
\* front of the old list; a sweep leaves on the list exactly the boxes that
\* were Black, each once, and every White box is unlinked and deallocated;
\* no other step changes the list.
C35_LargeListWellFormed ==
  /\ [](\A a \in Addrs :
          TimesQueued(big_object_link, a) = IF a \in LargeObjects THEN 1 ELSE 0)
  /\ [][ /\ (pc = "mutator" /\ objs' # objs /\ allocated_size' # allocated_size) =>
              \E a \in Addrs :
                /\ objs[a].status # "live"
                /\ objs'[a].status = "live"
                /\ big_object_link' = IF is_small_object(objs'[a].ty) THEN big_object_link
                                      ELSE << a >> \o big_object_link
         /\ pc = "sweep" =>
              \A a \in Range(big_object_link) :
                /\ objs[a].state = "Black" =>
                     /\ TimesQueued(big_object_link', a) = 1
                     /\ objs'[a].status = "live"
                /\ objs[a].state = "White" =>
                     /\ TimesQueued(big_object_link', a) = 0
                     /\ objs'[a].status = "unused"
         /\ pc = "sweep" => Range(big_object_link') \subseteq Range(big_object_link)
         /\ (pc # "sweep" /\ allocated_size' = allocated_size) =>
              big_object_link' = big_object_link ]_vars

\* A sweep has freed a large object and retained another, which is alone on
\* the large list.
C35_Witness ==
  /\ pc = "update_threshold"
  /\ Len(big_object_link) = 1
  /\ LargeObjects # {}
  /\ allocated_size < threshold
  /\ ~small_object_arenas

\* The slots of the arena of size class c, and its free list.
SlotsOf(c) == Range(small_arenas[c].slots)
FreeListOf(c) == small_arenas[c].free

\* C36 (slot discipline of the small arenas): every slot is live or on the
\* free list of its arena, exactly once, never both.  A sweep skips the free
\* slots and keeps them on the list, behind the slots it frees; it pushes
\* every live White slot onto the free list once, after running its drop
\* function once, and leaves every Black slot live, off the list and not
\* dropped.  A free slot becomes live again only when alloc takes it from the
\* head of the free list, so that no later sweep treats it as live before.
C36_SlotLiveOrFree ==
  /\ [](\A c \in SizeClasses :
          /\ Range(FreeListOf(c)) \subseteq SlotsOf(c)
          /\ \A slot \in SlotsOf(c) :
               \/ objs[slot].status = "live" /\ TimesQueued(FreeListOf(c), slot) = 0
               \/ objs[slot].status = "free" /\ TimesQueued(FreeListOf(c), slot) = 1)
  /\ [][ \A c \in SizeClasses :
           LET free == FreeListOf(c)
               free_after == small_arenas'[c].free IN
           /\ pc = "sweep" =>
                /\ Len(free_after) >= Len(free)
                /\ SubSeq(free_after, Len(free_after) - Len(free) + 1, Len(free_after)) = free
                /\ \A slot \in SlotsOf(c) :
                     /\ objs[slot].status = "free" =>
                          /\ objs'[slot] = objs[slot]
                          /\ TimesQueued(free_after, slot) = 1
                          /\ TimesQueued(dropped', slot) = 0
                     /\ (objs[slot].status = "live" /\ objs[slot].state = "White") =>
                          /\ objs'[slot].status = "free"
                          /\ TimesQueued(free_after, slot) = 1
                          /\ TimesQueued(dropped', slot) = IF drop_func(objs[slot].ty) THEN 1 ELSE 0
                     /\ (objs[slot].status = "live" /\ objs[slot].state = "Black") =>
                          /\ objs'[slot].status = "live"
                          /\ TimesQueued(free_after, slot) = 0
                          /\ TimesQueued(dropped', slot) = 0
           /\ \A slot \in SlotsOf(c) :
                /\ (objs[slot].status = "free" /\ objs'[slot].status # "free") =>
                     /\ pc = "mutator"
                     /\ objs'[slot].status = "live"
                     /\ slot = Head(free)
                     /\ free_after = Tail(free)
                /\ (objs[slot].status = "live" /\ objs'[slot].status # "live") =>
                     pc = "sweep" ]_vars

\* A sweep of an arena has freed a slot, whose drop function it ran, and
\* retained another.
C36_Witness ==
  /\ pc = "update_threshold"
  /\ \E c \in SizeClasses :
       /\ Len(FreeListOf(c)) = 1
       /\ Range(dropped) = Range(FreeListOf(c))
       /\ \E slot \in SlotsOf(c) : objs[slot].status = "live"

\* What a safepoint must leave alone if it does not collect: the headers and
\* payloads, the free lists and the large list, live_bytes, the threshold
\* and the log of drop calls.
CollectorHeap ==
  << objs, payload, small_arenas, big_object_link, allocated_size, threshold, dropped, grey_stack >>

\* C37: a safepoint whose check finds live_bytes < threshold is a no-op on
\* the collector.  Its push adds the root on top of the shadow stack and
\* changes nothing else; its check starts no collection and changes nothing;
\* its pop takes that root off again and changes nothing else: no object is
\* marked, freed or dropped, and live_bytes, the threshold, the large list
\* and the free lists are as they were.
C37_SafepointBelowThresholdIsNoOp ==
  [][ /\ pc' = "maybe_collect" =>
           /\ CollectorHeap' = CollectorHeap
           /\ SubSeq(shadow_stack', 1, Len(shadow_stack)) = shadow_stack
           /\ Len(shadow_stack') = Len(shadow_stack) + 1
      /\ (pc = "maybe_collect" /\ allocated_size < threshold) =>
           /\ pc' = "pop_uncollected"
           /\ CollectorHeap' = CollectorHeap
           /\ shadow_stack' = shadow_stack
      /\ pc = "pop_uncollected" =>
           /\ dropped = << >>
           /\ CollectorHeap' = CollectorHeap
           /\ allocated_size < threshold
           /\ \A a \in Live : objs'[a].state = "White"
           /\ shadow_stack' = SubSeq(shadow_stack, 1, Len(shadow_stack) - 1) ]_vars

\* A safepoint that did not collect is about to return: an unreachable
\* object is still allocated and counted.
C37_Witness ==
  /\ pc = "pop_uncollected"
  /\ Live \ Reachable # {}
  /\ allocated_size > 0
  /\ allocated_size < threshold

\* The step is a call of alloc that made the object at a.
Allocated(a) ==
  /\ pc = "mutator"
  /\ objs[a].status # "live"
  /\ objs'[a].status = "live"

\* C38 (alloc only adds): a call of alloc makes one new object, White, with
\* the type_info of its type, under a Gc that carries the identity of the
\* collector, and increases live_bytes by the size it accounts for the type.
\* It leaves alone the threshold, the shadow stack, the collection task, and
\* the header and payload of every other object; every object that was on
\* the large list or in an arena still is, and only the new object has
\* joined, or left the free list it was taken from.
C38_AllocOnlyAdds ==
  [][ \A a \in Addrs :
        Allocated(a) =>
          LET t == objs'[a].ty IN
          /\ objs'[a].state = "White"
          /\ t \in Types \cup ValueTypes
          /\ GcOf(a).collector_ptr = expected_collector
          /\ allocated_size' > allocated_size
          /\ allocated_size' - allocated_size =
               IF is_small_object(t) THEN small_object_size(t) ELSE size_of_BigGcObject(t)
          /\ \A b \in (Addrs \cup {ForeignAddr}) \ {a} :
               /\ objs'[b] = objs[b]
               /\ payload'[b] = payload[b]
          /\ threshold' = threshold
          /\ shadow_stack' = shadow_stack
          /\ << roots', root_idx', grey_stack', dropped', pc' >>
               = << roots, root_idx, grey_stack, dropped, pc >>
          /\ Range(big_object_link) \subseteq Range(big_object_link')
          /\ Range(big_object_link') \ Range(big_object_link) \subseteq {a}
          /\ \A c \in SizeClasses :
               /\ Range(small_arenas[c].slots) \subseteq Range(small_arenas'[c].slots)
               /\ Range(small_arenas'[c].slots) \ Range(small_arenas[c].slots) \subseteq {a}
               /\ Range(small_arenas'[c].free) = Range(small_arenas[c].free) \ {a} ]_vars

\* Two objects have been allocated, the second while the first was already
\* on the large list, and no safepoint has run.
C38_Witness ==
  /\ pc = "mutator"
  /\ shadow_stack = << >>
  /\ threshold = INITIAL_COLLECTION_THRESHOLD
  /\ Len(big_object_link) = 2
  /\ \A a \in Range(big_object_link) : objs[a].state = "White"

\* The calls a complete visit of the entries makes: for each entry in turn,
\* visit_immutable on its key, then visit on its value.
AllEntryCalls(entries) ==
  [ i \in 1..(2 * Len(entries)) |->
      IF i % 2 = 1 THEN [method |-> "visit_immutable", item |-> [key |-> entries[(i + 1) \div 2].key]]
      ELSE [method |-> "visit", item |-> [value |-> entries[i \div 2].value]] ]

\* C39: for HashMap<K, V> and IndexMap<K, V>, NEEDS_TRACE is K::NEEDS_TRACE
\* || V::NEEDS_TRACE.  When it is true, visit calls visit_immutable on every
\* key and visit on every value, entry by entry, up to and including the
\* first call that returns an error, which it returns; with no error it
\* returns Ok.  When it is false, visit calls nothing and returns Ok.
C39_MapsTraceCompletely ==
  locals.op = "map_visited" =>
    LET every == AllEntryCalls(locals.entries)
        failed == locals.fail_at \in 1..Len(every) IN
    /\ locals.NEEDS_TRACE = (HasField(locals.K) \/ HasField(locals.V))
    /\ locals.NEEDS_TRACE =>
         /\ locals.visitor.calls = IF failed THEN SubSeq(every, 1, locals.fail_at) ELSE every
         /\ locals.visitor.result = IF failed THEN "Err" ELSE "Ok"
    /\ ~locals.NEEDS_TRACE =>
         /\ locals.visitor.calls = << >>
         /\ locals.visitor.result = "Ok"

\* A map whose keys need no tracing and whose values do has been visited:
\* the visitor was called on the key and the value of the first entry and on
\* the key of the second, where it failed.
C39_Witness ==
  /\ locals.op = "map_visited"
  /\ ~HasField(locals.K)
  /\ HasField(locals.V)
  /\ Len(locals.entries) = 2
  /\ Len(locals.visitor.calls) = 3
  /\ locals.visitor.result = "Err"

\* The expansions of the magic variables the documentation of VisitImpl
\* lists for Trace, and those it lists for TraceImmutable.
DocumentedForTrace ==
  [ mutability |-> << >>, as_ref |-> << Ident("as_ref") >>, iter |-> << Ident("iter") >>,
    visit_func |-> << Ident("visit") >>, b |-> << Punct("&") >> ]
DocumentedForTraceImmutable ==
  [ mutability |-> << Ident("mut") >>, as_ref |-> << Ident("as_mut") >>,
    iter |-> << Ident("iter_mut") >>, visit_func |-> << Ident("visit_immutable") >>,
    b |-> << Punct("&"), Ident("mut") >> ]

\* What the expansion gives: for Trace the mutable forms, with the visit
\* method of Trace; for TraceImmutable the shared forms, with the visit
\* method of TraceImmutable.
ExpandedForTrace ==
  [ DocumentedForTraceImmutable EXCEPT !.visit_func = << Ident("visit") >> ]
ExpandedForTraceImmutable ==
  [ DocumentedForTrace EXCEPT !.visit_func = << Ident("visit_immutable") >> ]

\* The template that was expanded has no magic token `#`, in no group.
NoMagicToken(stream) ==
  \A i \in DOMAIN stream :
    /\ stream[i] # Punct("#")
    /\ stream[i].kind = "Group" => \A j \in DOMAIN stream[i].stream : stream[i].stream[j] # Punct("#")

\* An expansion under the table `expansion`: a magic variable alone, in a
\* group, after other tokens and after an escape; the escape; a template
\* with no magic token.
ExpandsBy(expansion) ==
  LET input == locals.generic_impl
      output == locals.tokens IN
  /\ \A v \in MagicVars :
       /\ input = << Punct("#"), Ident(v) >> => output = Ok(expansion[v])
       /\ input = << Ident("self"), Punct("#"), Ident(v) >> =>
            output = Ok(<< Ident("self") >> \o expansion[v])
       /\ input = << Punct("#"), Punct("#"), Ident(v) >> =>
            output = Ok(<< Punct("#"), Ident(v) >>)
  /\ input = << Group("(", << Punct("#"), Ident("b") >>) >> =>
       output = Ok(<< Group("(", expansion["b"]) >>)
  /\ input = << Punct("#"), Punct("#") >> => output = Ok(<< Punct("#") >>)
  /\ input = << Group("(", << Punct("#"), Punct("#") >>) >> =>
       output = Ok(<< Group("(", << Punct("#") >>) >>)
  /\ NoMagicToken(input) => output = Ok(input)

====
